---- MODULE Spec2Model ----
(***************************************************************************)
(* URLGenie-2 data preparation: the bounded-concurrency batch pipeline.    *)
(*                                                                         *)
(* Layers, leaves first:                                                   *)
(*   - ApiService.get_image_bytes_with_client: one fetch under the shared  *)
(*     semaphore, with retries and exponential backoff (SpecFetch);        *)
(*   - the enrichment item processor and sub-batch executor (SpecBatch);   *)
(*   - the request-building pipeline, batches in parallel (SpecJsonl);     *)
(*   - the enrichment file run with its staging artifact (SpecFile).       *)
(*                                                                         *)
(* asyncio runs one coroutine at a time and switches only at an await, so  *)
(* every action below is the code between two awaits of one coroutine.     *)
(* Times are in milliseconds (0.5 s = 500).                                *)
(***************************************************************************)
EXTENDS Integers, Sequences, FiniteSets, TLC

\* ------------------------------------------------------------------ bounds
\* Number of concurrent callers of get_image_bytes_with_client in SpecFetch.
NTasks == 2
\* MAX_CONCURRENT_REQUESTS is a setting: a run is started with any value 1..MaxPermits.
MaxPermits == 2
\* max_retries is a parameter: a run is started with any value 0..MaxMaxRetries.
MaxMaxRetries == 2

\* Rows of the batch handed to the enrichment sub-batch executor: 1..NBatchRows.
NBatchRows == 3

\* Rows of the input of a request-building run: 0..NJsonlRows.
NJsonlRows == 3
\* The request-building batch size is a request field or a setting (200..800 in
\* the source's comments): a run is started with any value 1..MaxJsonlBatchSize.
MaxJsonlBatchSize == 3

\* Rows of the TSV file of an enrichment file run: 0..NFileRows.
NFileRows == 3
\* settings.BATCH_SIZE (500 by default): a run is started with any value
\* 1..MaxFileBatchSize.
MaxFileBatchSize == 2

\* Rows of a batch in whose processing at most one thing fails: 1..NLongBatchRows.
NLongBatchRows == 5

\* TSV files in the directory of an enrichment run: 0..NFiles.
NFiles == 2

\* Enrichment file runs in progress in one process at the same time, the
\* minutes the clock passes through meanwhile, and the batches of each file.
NRuns == 2
MaxMinute == 1
RunBatches == 2

\* Rows of a run that finds a ledger file left by earlier runs: 1..NLedgerRows.
NLedgerRows == 3
\* Entries in the ledger file before the run: 0..MaxEarlierEntries.
MaxEarlierEntries == 1

\* The summary computation alone: up to MaxSummaryBatches batch results with
\* counts of 0..MaxBatchCount each.
MaxSummaryBatches == 2
MaxBatchCount == 2

\* Environment failures (a failed get, log_error, decode, model call, usage
\* record, parse or ledger access) injected into one pipeline run: at most MaxFaults.
MaxFaults == 2

\* ------------------------------------------------------- program constants
\* sub_batch_size of the enrichment executor: 100 in the source, scaled down to 2
\* so that a batch of NBatchRows rows has a full and a partial sub-batch.
sub_batch_size == 2
\* default of the max_retries parameter
DefaultMaxRetries == 2
\* base of the backoff, 0.5 s, in milliseconds
BackoffBaseMs == 500

\* Outcomes of one client.get + raise_for_status (api_service.py:200-201).
Transient == {"pool_timeout", "connect_timeout"}
NonTransient == {"http_status", "request_error", "other"}

VARIABLES
  pipeline,           \* which entry point the run uses: "fetch", "enrich", "jsonl", "file"
  MAX_CONCURRENT_REQUESTS, \* settings.MAX_CONCURRENT_REQUESTS of the run
  max_retries,        \* the max_retries argument of the run's fetches
  concurrency_limit,  \* value of ApiService.concurrency_limit (free permits)
  pc,                 \* pc[t]: position of the coroutine of task t
  attempt,            \* attempt[t]: loop variable of the retry loop
  last_exception,     \* last_exception[t]
  waits,              \* waits[t]: the asyncio.sleep(wait_time) calls made, in order
  gets,               \* gets[t]: number of client.get calls made
  reports,            \* reports[t]: number of error_repo.log_error calls made
  fret,               \* fret[t]: what get_image_bytes_with_client gave its caller
  result,             \* result[t]: what the item processor returned for row t
  ledger,             \* entries of intermediate_outputs/failed_image_urls.json, in order
  ledger_calls,       \* ledger_calls[t]: number of log_failed_url calls made for row t
  llm_calls,          \* llm_calls[t]: number of generate_content calls made for row t
  urls,               \* the batch of process_batch_parallel: its rows, in order
  sub_i,              \* loop variable i of the sub-batch loop (0-based offset)
  all_results,        \* all_results of process_batch_parallel
  bstate,             \* position of process_batch_parallel
  completed,          \* tasks of the current sub-batch, in completion order
  jstate,             \* position of PrepareJsonalUsecase.execute
  effective_batch_size, \* effective_batch_size of the request-building run
  file_rows,          \* the rows pd.read_csv read from the input file of that run
  batch_results,      \* batch_results[b]: the BatchProcessingResult of batch b, once made
  artifacts,          \* artifacts[name]: keys of the records in the JSONL file of that name
  parsed_text,        \* per row: what parse_response made of the model's text
  run_report,         \* what execute returned
  fstate,             \* position of process_single_tsv_file
  df,                 \* the rows read from the TSV file, in order
  BATCH_SIZE,         \* settings.BATCH_SIZE of the run
  batch_index,        \* loop variable of the batch loop
  updated_batch_df,   \* rows of the batch being appended, with their results
  written,            \* rows of updated_batch_df that to_csv has written so far
  staging,            \* lines of the temp file: <<>> if absent, else header and rows
  final,              \* lines of the file at final_output_path written by the run
  processed_rows,     \* processed_rows
  file_report,        \* what process_single_tsv_file returned
  cleanup,            \* what the except handler did about the temp file
  rstate,             \* position of GenerateBatchDescriptionUsecase.execute
  tsv_files,          \* number of TSV files get_tsv_files found
  file_index,         \* position of the file loop in tsv_files, from 0
  results,            \* results of execute: files_processed, processed_files, errors
  enrich_runs,        \* per concurrent enrichment file run: its position and locals
  intermediate_outputs, \* the temp files of intermediate_outputs/, by name: their lines
  minute,             \* datetime.now() to the minute, as the temp file name has it
  faults              \* environment failures injected so far

fetchVars == <<MAX_CONCURRENT_REQUESTS, max_retries, concurrency_limit, pc, attempt,
               last_exception, waits, gets, reports, fret>>
\* what the code after the fetch leaves alone in the fetch state
fetchVars_but_pc == <<MAX_CONCURRENT_REQUESTS, max_retries, concurrency_limit, attempt,
                      last_exception, waits, gets, reports, fret>>
itemVars == <<result, ledger, ledger_calls, llm_calls, parsed_text>>
batchVars == <<urls, sub_i, all_results, bstate, completed>>

jsonlVars == <<jstate, effective_batch_size, file_rows, batch_results, artifacts, run_report>>
fileVars == <<fstate, df, BATCH_SIZE, batch_index, updated_batch_df, written, staging,
              final, processed_rows, file_report, cleanup>>

runVars == <<rstate, tsv_files, file_index, results>>
shareVars == <<enrich_runs, intermediate_outputs, minute>>

vars == <<pipeline, fetchVars, itemVars, batchVars, jsonlVars, fileVars, runVars, shareVars, faults>>
\* what a step of get_image_bytes_with_client leaves alone
aboveFetch == <<pipeline, itemVars, batchVars, jsonlVars, fileVars, runVars, shareVars>>

\* ---------------------------------------------------------------- helpers
Pow2(n) == 2 ^ n
Min(a, b) == IF a < b THEN a ELSE b

\* What a fetch gives its caller: kind "bytes" is (content, None), "error" is
\* (None, msg), "raised" is an exception; cause types the failure behind it.
NoRet == [kind |-> "none", msg |-> "none", cause |-> "none"]
Bytes == [kind |-> "bytes", msg |-> "none", cause |-> "none"]
TypedFailure(exc_type) == [kind |-> "error", msg |-> exc_type, cause |-> exc_type]
Raised(exc_type) == [kind |-> "raised", msg |-> "HTTPException", cause |-> exc_type]

\* wait_time = 0.5 * (2 ** attempt)                       (api_service.py:208)
WaitTimeNoExponent(a) == BackoffBaseMs
WaitTime(a) == BackoffBaseMs * Pow2(a)

\* The isinstance chain that types the final exception    (api_service.py:219-275)
ErrorMsg(exc) ==
  CASE exc \in Transient      -> "pool_timeout"
    [] exc = "http_status"    -> "http_status"
    [] exc = "request_error"  -> "network"
    [] OTHER                  -> "unexpected"

\* The tasks (rows) of the run.
Tasks == DOMAIN pc

\* Number of fetches inside the permit-guarded client.get.
InFlight == Cardinality({t \in Tasks : pc[t] = "get"})

\* ------------------------------------------- get_image_bytes_with_client
\* a fetch that enters client.get without waiting for a free permit
AcquireUnguarded(t) ==
  /\ pc[t] = "acquire"
  /\ concurrency_limit' = concurrency_limit - 1
  /\ pc' = [pc EXCEPT ![t] = "get"]
  /\ gets' = [gets EXCEPT ![t] = @ + 1]
  /\ UNCHANGED <<MAX_CONCURRENT_REQUESTS, max_retries, attempt, last_exception,
                 waits, reports, fret>>

\* async with self.concurrency_limit: wait for a permit and take it
\* (api_service.py:199)
Acquire(t) ==
  /\ pc[t] = "acquire"
  /\ concurrency_limit > 0
  /\ concurrency_limit' = concurrency_limit - 1
  /\ pc' = [pc EXCEPT ![t] = "get"]
  /\ gets' = [gets EXCEPT ![t] = @ + 1]
  /\ UNCHANGED <<MAX_CONCURRENT_REQUESTS, max_retries, attempt, last_exception,
                 waits, reports, fret>>

\* client.get and raise_for_status succeed: return response.content, None
\* (api_service.py:200-202); the permit is released on leaving the block.
GetSucceeds(t) ==
  /\ pc[t] = "get"
  /\ concurrency_limit' = concurrency_limit + 1
  /\ fret' = [fret EXCEPT ![t] = Bytes]
  /\ pc' = [pc EXCEPT ![t] = "fetched"]
  /\ UNCHANGED <<MAX_CONCURRENT_REQUESTS, max_retries, attempt, last_exception,
                 waits, gets, reports>>

\* except (httpx.PoolTimeout, httpx.ConnectTimeout)       (api_service.py:204-212)
TransientStep(t, exc, retry) ==
  /\ last_exception' = [last_exception EXCEPT ![t] = exc]
  /\ IF retry
       THEN /\ waits' = [waits EXCEPT ![t] = Append(@, WaitTime(attempt[t]))]
            /\ pc' = [pc EXCEPT ![t] = "backoff"]
       ELSE /\ waits' = waits
            /\ pc' = [pc EXCEPT ![t] = "report"]

ShouldRetry(t) == attempt[t] < max_retries

\* the permit is kept through the backoff wait
GetTransientHoldsPermit(t, exc) ==
  /\ pc[t] = "get"
  /\ exc \in Transient
  /\ concurrency_limit' = IF ShouldRetry(t) THEN concurrency_limit ELSE concurrency_limit + 1
  /\ TransientStep(t, exc, ShouldRetry(t))
  /\ UNCHANGED <<MAX_CONCURRENT_REQUESTS, max_retries, attempt, gets, reports, fret>>

\* every transient failure is reported, retried or not
GetTransientReported(t, exc) ==
  /\ pc[t] = "get"
  /\ exc \in Transient
  /\ concurrency_limit' = concurrency_limit + 1
  /\ TransientStep(t, exc, ShouldRetry(t))
  /\ reports' = [reports EXCEPT ![t] = @ + 1]
  /\ UNCHANGED <<MAX_CONCURRENT_REQUESTS, max_retries, attempt, gets, fret>>

GetTransient(t, exc) ==
  /\ pc[t] = "get"
  /\ exc \in Transient
  /\ concurrency_limit' = concurrency_limit + 1
  /\ TransientStep(t, exc, ShouldRetry(t))
  /\ UNCHANGED <<MAX_CONCURRENT_REQUESTS, max_retries, attempt, gets, reports, fret>>

\* asyncio.sleep(wait_time) is over; continue with the next attempt
\* (api_service.py:209-210, 196)
BackoffDone(t) ==
  /\ pc[t] = "backoff"
  /\ attempt' = [attempt EXCEPT ![t] = @ + 1]
  /\ pc' = [pc EXCEPT ![t] = "acquire"]
  /\ UNCHANGED <<MAX_CONCURRENT_REQUESTS, max_retries, concurrency_limit,
                 last_exception, waits, gets, reports, fret>>

\* except Exception: no retry                              (api_service.py:213-216)
GetFails(t, exc) ==
  /\ pc[t] = "get"
  /\ exc \in NonTransient
  /\ concurrency_limit' = concurrency_limit + 1
  /\ last_exception' = [last_exception EXCEPT ![t] = exc]
  /\ pc' = [pc EXCEPT ![t] = "report"]
  /\ UNCHANGED <<MAX_CONCURRENT_REQUESTS, max_retries, attempt, waits, gets,
                 reports, fret>>

\* ErrorRepo.log_error: insert_one succeeds and the id is returned, or it fails
\* and log_error raises HTTPException(500)           (error_repository.py:24-53)
log_error(ok) == IF ok THEN "logged" ELSE "HTTPException"

\* await self.error_repo.log_error(...); return None, error_msg
\* (api_service.py:219-275). The await is not inside any try: what log_error
\* raises leaves get_image_bytes_with_client.
Report(t, ok) ==
  /\ pc[t] = "report"
  /\ reports' = [reports EXCEPT ![t] = @ + 1]
  /\ fret' = [fret EXCEPT ![t] =
               IF log_error(ok) = "logged"
                 THEN TypedFailure(ErrorMsg(last_exception[t]))
                 ELSE Raised(ErrorMsg(last_exception[t]))]
  /\ pc' = [pc EXCEPT ![t] = "fetched"]
  /\ UNCHANGED <<MAX_CONCURRENT_REQUESTS, max_retries, concurrency_limit, attempt,
                 last_exception, waits, gets>>

\* ApiService.__init__ (api_service.py:24-26) and the state of a fetch on entry
\* (api_service.py:194).
\* ------------------------------------------------------- Failure Ledger
\* The ways the file system can answer one log_failed_url call: the existing
\* file is readable or not, and the rewrite succeeds, fails before the file is
\* opened, or fails after open(..., 'w') has truncated it.
LedgerIO == [rd : BOOLEAN, wr : {"ok", "open_fails", "dump_fails"}]
DefaultIO == [rd |-> TRUE, wr |-> "ok"]

Entry(url, error) == [url |-> url, error |-> error]

\* Helper.log_failed_url (generate_description_usecases/helper.py:37-61): load
\* the existing entries (an unreadable file is taken as empty), append, rewrite.
log_failed_url(led, url, error, io) ==
  LET failed_data == IF io.rd THEN led ELSE <<>>
  IN  CASE io.wr = "ok" ->
             [ledger |-> Append(failed_data, Entry(url, error)), raised |-> FALSE]
        [] io.wr = "open_fails" -> [ledger |-> led, raised |-> TRUE]
        [] OTHER -> [ledger |-> <<>>, raised |-> TRUE]

\* Nested exception handlers that each log the failure: handler k runs when the
\* log_failed_url call of handler k-1 raised. stage is the handler whose call
\* succeeded, 0 when the last call raised too and the exception propagates.
RECURSIVE LogChainFrom(_, _, _, _, _)
LogChainFrom(led, url, reasons, ch, k) ==
  IF k > Len(reasons)
    THEN [ledger |-> led, calls |-> Len(reasons), stage |-> 0]
    ELSE LET w == log_failed_url(led, url, reasons[k], ch[k])
         IN  IF w.raised
               THEN LogChainFrom(w.ledger, url, reasons, ch, k + 1)
               ELSE [ledger |-> w.ledger, calls |-> k, stage |-> k]

LogChain(led, url, reasons, ch) == LogChainFrom(led, url, reasons, ch, 1)

\* The answers of the file system to the (at most three) calls of one chain:
\* the first j calls fail, the next one succeeds. A failed rewrite after
\* truncation empties the file whatever the other failed calls did, so the
\* failing calls of one chain are given the same answer.
ChainIO(j, kind, rd) ==
  [k \in 1..3 |-> IF k <= j THEN [rd |-> TRUE, wr |-> kind]
                  ELSE IF k = j + 1 THEN [rd |-> rd, wr |-> "ok"]
                  ELSE DefaultIO]
\* No more calls fail than the run has failures left to inject.
LedgerChoices ==
  {ChainIO(j, kind, rd) : j \in 0..Min(3, MaxFaults - faults),
                          kind \in {"open_fails", "dump_fails"}, rd \in BOOLEAN}

\* Number of calls of the chain c that the file system did not answer normally.
LedgerFaults(ch, c) == Cardinality({k \in 1..c.calls : ch[k] # DefaultIO})

\* Environment failures are injected at most MaxFaults times in a run.
Charge(n) == faults + n <= MaxFaults /\ faults' = faults + n
NoFault == UNCHANGED faults

NoResult == [row |-> 0, status |-> "none", error |-> "none"]
Success(t) == [row |-> t, status |-> "success", error |-> "none"]
Failure(t, error) == [row |-> t, status |-> "error", error |-> error]

\* The frame of get_image_bytes_with_client is gone once the caller has its
\* return value: attempt, last_exception and wait_time are locals of the call.
PopFetchFrame(t) ==
  /\ attempt' = [attempt EXCEPT ![t] = 0]
  /\ last_exception' = [last_exception EXCEPT ![t] = "none"]
  /\ waits' = [waits EXCEPT ![t] = <<>>]
  /\ UNCHANGED <<MAX_CONCURRENT_REQUESTS, max_retries, concurrency_limit, gets,
                 reports, fret>>

\* A row ends: its coroutine returns r after the chain c of ledger calls.
Finish(t, r, c) ==
  /\ result' = [result EXCEPT ![t] = r]
  /\ ledger' = c.ledger
  /\ ledger_calls' = [ledger_calls EXCEPT ![t] = @ + c.calls]
  /\ pc' = [pc EXCEPT ![t] = "done"]
  /\ completed' = Append(completed, t)

NoChain == [ledger |-> ledger, calls |-> 0, stage |-> 0]

\* ------------------------------------- enrichment item processor
\* Helper.get_image_from_url_with_client after the fetch
\* (generate_description_usecases/helper.py:77-96), the image is None branch of
\* generate_description (generate_description_usecase.py:28-38) and
\* process_single_url around them (generate_batch_description_usecases/helper.py:49-77).
\* reasons: the log_failed_url calls of the handlers that can run, in order.
FetchFailureReasons(ret) ==
  CASE ret.kind = "error" ->
         << <<"HTTP fetch failed", ret.msg>>, <<"Image processing error", "raised">> >>
    [] ret.kind = "raised" -> << <<"Image processing error", ret.msg>> >>
    [] OTHER -> << <<"Image processing error", "decode">> >>

\* an exception that left get_image leaves process_single_url too
ImageFailureRaises(t, c) ==
  IF c.stage = 0 THEN [row |-> t, status |-> "raised", error |-> "exception"]
                 ELSE Failure(t, "Failed to load image")

\* if image is None: return the error result; an exception that left get_image
\* is caught by process_single_url.
ImageFailure(t, c) ==
  IF c.stage = 0 THEN Failure(t, "exception") ELSE Failure(t, "Failed to load image")

\* generate_content is called whatever get_image returned
CallsLlmAlways(ret, decode_ok) == TRUE
\* generate_content is reached only with an image (generate_description_usecase.py:31, 42)
CallsLlm(ret, decode_ok) == ret.kind = "bytes" /\ decode_ok

EnrichAfterFetch(t, decode_ok, ch) ==
  /\ pc[t] = "fetched"
  /\ fret[t].kind # "bytes" => decode_ok
  /\ IF CallsLlm(fret[t], decode_ok)
       THEN /\ llm_calls' = [llm_calls EXCEPT ![t] = @ + 1]
            /\ pc' = [pc EXCEPT ![t] = "llm"]
            /\ ch = [k \in 1..3 |-> DefaultIO]
            /\ NoFault
            /\ UNCHANGED <<result, ledger, ledger_calls, completed>>
       ELSE LET c == LogChain(ledger, t, FetchFailureReasons(fret[t]), ch)
            IN  /\ Finish(t, ImageFailure(t, c), c)
                /\ Charge(LedgerFaults(ch, c) + (IF decode_ok THEN 0 ELSE 1))
                /\ UNCHANGED llm_calls
  /\ PopFetchFrame(t)
  /\ UNCHANGED <<pipeline, parsed_text, urls, sub_i, all_results, bstate, jsonlVars,
                 fileVars, runVars, shareVars>>

\* except Exception as e: log "Gemini API error" and return "Generation failed"
\* (generate_description_usecase.py:85-98)
GenerationFailure(t, ch) ==
  LET c == LogChain(ledger, t, << <<"Gemini API error", "raised">> >>, ch)
  IN  /\ Finish(t, IF c.stage = 0 THEN Failure(t, "exception")
                                  ELSE Failure(t, "Generation failed"), c)
      /\ Charge(1 + LedgerFaults(ch, c))

\* generate_content returns or raises (generate_description_usecase.py:40-51)
LlmReturns(t, ok, ch) ==
  /\ pc[t] = "llm"
  /\ IF ok
       THEN /\ pc' = [pc EXCEPT ![t] = "usage"]
            /\ ch = [k \in 1..3 |-> DefaultIO]
            /\ NoFault
            /\ UNCHANGED <<result, ledger, ledger_calls, completed>>
       ELSE GenerationFailure(t, ch)
  /\ UNCHANGED <<pipeline, fetchVars_but_pc, llm_calls, parsed_text, urls, sub_i,
                 all_results, bstate, jsonlVars, fileVars, runVars, shareVars>>

\* the handlers around parse_response (generate_description_usecase.py:54-84)
ParseFailureReasons(parse) ==
  IF parse = "none"
    THEN << <<"JSON parsing failed - returned None", "none">>,
            <<"JSON parsing exception", "raised">>,
            <<"Gemini API error", "raised">> >>
    ELSE << <<"JSON parsing exception", "raised">>, <<"Gemini API error", "raised">> >>

ParseFailure(t, parse, c) ==
  LET n == Len(ParseFailureReasons(parse))
  IN  CASE c.stage = 0 -> Failure(t, "exception")
        [] c.stage = n -> Failure(t, "Generation failed")
        [] c.stage = n - 1 -> Failure(t, "JSON parsing failed")
        [] OTHER -> Failure(t, "Failed to parse response JSON")

\* What parse_response (utils/response_parser.py:8-62) makes of the model's
\* text: "dict" for a JSON object; "partial" for text that is no JSON at all or
\* broken JSON, out of which extract_partial_json makes a dict of the pairs it
\* finds, the empty dict included; "none" for the JSON value null; "raise" for
\* any other JSON value (a list, a string, a number), on which .get fails.
ParseOutcomes == {"dict", "partial", "none", "raise"}

\* parsed_text is not None and has .get: the row's result has no status and
\* counts as a success (generate_description_usecase.py:59, 69-72;
\* generate_batch_description_usecases/helper.py:56-68)
ParsedAsDict(parse) == parse \in {"dict", "partial"}

\* add_llm_usage returns or raises, then parse_response
\* (generate_description_usecase.py:51-84)
UsageReturns(t, ok, parse, ch) ==
  /\ pc[t] = "usage"
  /\ ~ok => parse = "dict"
  /\ parsed_text' = [parsed_text EXCEPT ![t] = IF ok THEN parse ELSE @]
  /\ IF ~ok
       THEN GenerationFailure(t, ch)
       ELSE IF ParsedAsDict(parse)
              THEN /\ Finish(t, Success(t), NoChain)
                   /\ ch = [k \in 1..3 |-> DefaultIO]
                   /\ Charge(IF parse = "dict" THEN 0 ELSE 1)
              ELSE LET c == LogChain(ledger, t, ParseFailureReasons(parse), ch)
                   IN  /\ Finish(t, ParseFailure(t, parse, c), c)
                       /\ Charge(1 + LedgerFaults(ch, c))
  /\ UNCHANGED <<pipeline, fetchVars_but_pc, llm_calls, urls, sub_i, all_results, bstate,
                 jsonlVars, fileVars, runVars, shareVars>>

ItemInit(T) ==
  /\ result = [t \in T |-> NoResult]
  /\ ledger = <<>>
  /\ ledger_calls = [t \in T |-> 0]
  /\ llm_calls = [t \in T |-> 0]
  /\ parsed_text = [t \in T |-> "unset"]

\* ------------------------------- enrichment sub-batch executor
\* Helper.process_batch_parallel
\* (generate_batch_description_usecases/helper.py:79-124)
\* all the rows that are left form the sub-batch
SubBatchRest == SubSeq(urls, sub_i + 1, Len(urls))

\* sub_batch_urls = urls[i:i + sub_batch_size]: a Python slice ends at the end
\* of the list                                            (helper.py:94)
SubBatch == SubSeq(urls, sub_i + 1, Min(sub_i + sub_batch_size, Len(urls)))

\* tasks = [...]; asyncio.gather(*tasks) starts them     (helper.py:93-101)
LaunchSubBatch ==
  /\ bstate = "launch"
  /\ sub_i < Len(urls)
  /\ pc' = [t \in Tasks |->
             IF \E j \in 1..Len(SubBatch) : SubBatch[j] = t THEN "acquire" ELSE pc[t]]
  /\ completed' = <<>>
  /\ bstate' = "gather"
  /\ UNCHANGED <<pipeline, fetchVars_but_pc, itemVars, urls, sub_i, all_results, jsonlVars,
                 fileVars, runVars, shareVars, faults>>

\* the first failure among the rows of the sub-batch stands for all of them
GatherFirstFailure ==
  LET failed == {j \in 1..Len(SubBatch) : result[SubBatch[j]].status = "error"}
  IN  [j \in 1..Len(SubBatch) |->
        IF failed = {} THEN result[SubBatch[j]]
        ELSE result[SubBatch[CHOOSE i \in failed : \A k \in failed : i <= k]]]

\* gather returns the results in the order the tasks finished
GatherCompletionOrder == [j \in 1..Len(completed) |-> result[completed[j]]]
\* gather returns the results in the order of its arguments (helper.py:101)
Gather == [j \in 1..Len(SubBatch) |-> result[SubBatch[j]]]

\* the next sub-batch follows at once, without the cooldown
GatherDoneSkipsCooldown ==
  /\ bstate = "gather"
  /\ \A j \in 1..Len(SubBatch) : pc[SubBatch[j]] = "done"
  /\ all_results' = all_results \o Gather
  /\ IF sub_i + sub_batch_size < Len(urls)
       THEN /\ bstate' = "launch"
            /\ sub_i' = sub_i + sub_batch_size
       ELSE /\ bstate' = "closing"
            /\ sub_i' = sub_i
  /\ UNCHANGED <<pipeline, fetchVars, itemVars, urls, completed, jsonlVars,
                 fileVars, runVars, shareVars, faults>>

\* the sub-batch is complete: extend all_results, then cooldown or leave the loop
\* (helper.py:101-119)
GatherDone ==
  /\ bstate = "gather"
  /\ \A j \in 1..Len(SubBatch) : pc[SubBatch[j]] = "done"
  /\ all_results' = all_results \o Gather
  /\ bstate' = IF sub_i + sub_batch_size < Len(urls) THEN "cooldown" ELSE "closing"
  /\ UNCHANGED <<pipeline, fetchVars, itemVars, urls, sub_i, completed, jsonlVars,
                 fileVars, runVars, shareVars, faults>>

\* asyncio.sleep(0.1) is over: next sub-batch             (helper.py:116-117, 93)
CooldownDone ==
  /\ bstate = "cooldown"
  /\ sub_i' = sub_i + sub_batch_size
  /\ bstate' = "launch"
  /\ UNCHANGED <<pipeline, fetchVars, itemVars, urls, all_results, completed, jsonlVars,
                 fileVars, runVars, shareVars, faults>>

\* finally: await shared_client.aclose(); return all_results (helper.py:119-124)
BatchClose(ok) ==
  /\ bstate = "closing"
  /\ bstate' = IF ok THEN "returned" ELSE "raised"
  /\ Charge(IF ok THEN 0 ELSE 1)
  /\ UNCHANGED <<pipeline, fetchVars, itemVars, urls, sub_i, all_results, completed,
                 jsonlVars, fileVars, runVars, shareVars>>

BatchInit(n) ==
  /\ urls = [j \in 1..n |-> j]
  /\ sub_i = 0
  /\ all_results = <<>>
  /\ bstate = "launch"
  /\ completed = <<>>

BatchOff ==
  /\ urls = <<>>
  /\ sub_i = 0
  /\ all_results = <<>>
  /\ bstate = "off"
  /\ completed = <<>>

\* ------------------------------------------- request-building pipeline
\* PrepareJsonalUsecase and its Helper (prepare_jsonal_usecases).
NoReport == [status |-> "none"]

\* A row of the input file: "full" if it has a photo_id and a photo_image_url,
\* else what it lacks (NaN in that column).
RowKinds == {"full", "no_id", "no_url"}

\* dropna keeps every row
DropNaKeepsAll(rows) == rows

\* df.dropna(subset=['photo_id', 'photo_image_url'])
\* (prepare_jsonal_usecases/helper.py:43)
DropNa(rows) == SelectSeq(rows, LAMBDA r : r = "full")

\* create_batches: rows i .. i + batch_size - 1 form batch i / batch_size
\* (prepare_jsonal_usecases/helper.py:52-65); batch indices are 0-based.
BatchOf(t) == (t - 1) \div effective_batch_size
NumBatches(n) == (n + effective_batch_size - 1) \div effective_batch_size
BatchRows(b) == {t \in Tasks : BatchOf(t) = b}
Batches == 0..(NumBatches(Cardinality(Tasks)) - 1)

\* execute up to the gather of process_all_batches_parallel: read the file,
\* make the batches and start every process_single_batch, each of which starts
\* the fetches of all its rows at once
\* (prepare_jsonal_usecase.py:31-61, 109-116; helper.py:96-107).
\* file_path = "": the empty string, as the empty sequence of characters
NoPath == <<>>

\* the file every batch writes, whatever its index
ArtifactNameOfRun(b) == <<"input_file_name", "batch", 0>>

\* save_jsonl_file: the file of batch b is
\* f"{input_file_name}_batch_{batch_index}.jsonl" in the output directory
\* (prepare_jsonal_usecases/helper.py:203-208)
ArtifactName(b) == <<"input_file_name", "batch", b>>

\* Outcomes of read_tsv_file (prepare_jsonal_usecases/helper.py:20-50): the
\* frame, or an exception because photo_id or photo_image_url is not a column,
\* or because the file is absent, not a .tsv or unreadable.
ReadOutcomes == {"ok", "missing_columns", "unreadable"}

\* the outcomes that are failures of the environment rather than of the input
ReadFaults(read) == IF read = "unreadable" THEN 1 ELSE 0

\* the fetches of every row are started before the columns are validated
JsonlStartFetchesFirst(read) ==
  /\ jstate = "start"
  /\ IF read = "ok" /\ Tasks # {}
       THEN /\ pc' = [t \in Tasks |-> "acquire"]
            /\ jstate' = "batches"
            /\ run_report' = run_report
       ELSE /\ pc' = [t \in Tasks |-> "acquire"]
            /\ jstate' = "done"
            /\ run_report' = [status |-> "error", total_batches |-> 0,
                              message |-> IF read = "ok" THEN "empty" ELSE read]
  /\ Charge(ReadFaults(read))
  /\ UNCHANGED <<pipeline, fetchVars_but_pc, itemVars, batchVars, effective_batch_size, file_rows,
                 batch_results, artifacts, fileVars, runVars, shareVars>>

\* an input without rows goes on to the summary of its zero batches
JsonlStartEmptySucceeds(read) ==
  /\ jstate = "start"
  /\ IF read = "ok"
       THEN /\ pc' = [t \in Tasks |-> "acquire"]
            /\ jstate' = "batches"
            /\ run_report' = run_report
       ELSE /\ pc' = pc
            /\ jstate' = "done"
            /\ run_report' = [status |-> "error", total_batches |-> 0, message |-> read]
  /\ Charge(ReadFaults(read))
  /\ UNCHANGED <<pipeline, fetchVars_but_pc, itemVars, batchVars, effective_batch_size, file_rows,
                 batch_results, artifacts, fileVars, runVars, shareVars>>

JsonlStart(read) ==
  /\ jstate = "start"
  /\ IF read = "ok" /\ Tasks # {}
       THEN /\ pc' = [t \in Tasks |-> "acquire"]
            /\ jstate' = "batches"
            /\ run_report' = run_report
       ELSE /\ pc' = pc
            /\ jstate' = "done"
            /\ run_report' = [status |-> "error", total_batches |-> 0,
                              message |-> IF read = "ok" THEN "empty" ELSE read]
  /\ Charge(ReadFaults(read))
  /\ UNCHANGED <<pipeline, fetchVars_but_pc, itemVars, batchVars, effective_batch_size, file_rows,
                 batch_results, artifacts, fileVars, runVars, shareVars>>

\* Helper.fetch_image_base64 after the fetch (helper.py:73-86): the failure is
\* logged to the error logger and returned; no Failure Ledger call is made.
JsonlAfterFetch(t) ==
  /\ pc[t] = "fetched"
  /\ result' = [result EXCEPT ![t] =
        CASE fret[t].kind = "bytes" -> Success(t)
          [] fret[t].kind = "error" -> Failure(t, fret[t].msg)
          [] OTHER -> Failure(t, "Error processing image")]
  /\ pc' = [pc EXCEPT ![t] = "done"]
  /\ PopFetchFrame(t)
  /\ NoFault
  /\ UNCHANGED <<pipeline, ledger, ledger_calls, llm_calls, parsed_text, batchVars,
                 jsonlVars, fileVars, runVars, shareVars>>

\* The rows of batch b in row order.
RECURSIVE SeqOfSet(_)
SeqOfSet(S) ==
  IF S = {} THEN <<>>
  ELSE LET m == CHOOSE x \in S : \A y \in S : x <= y
       IN  <<m>> \o SeqOfSet(S \ {m})

\* successful_requests of process_batch_parallel: the keys of the rows that
\* have base64 data, in the order of gather's results (helper.py:107-146)
RECURSIVE SuccessfulKeys(_)
SuccessfulKeys(rows) ==
  IF rows = <<>> THEN <<>>
  ELSE (IF result[Head(rows)].status = "success" THEN <<Head(rows)>> ELSE <<>>)
         \o SuccessfulKeys(Tail(rows))

\* error_messages of process_batch_parallel (helper.py:110-146)
RECURSIVE ErrorMessages(_)
ErrorMessages(rows) ==
  IF rows = <<>> THEN <<>>
  ELSE (IF result[Head(rows)].status = "error"
          THEN << <<"Failed to fetch image", Head(rows), result[Head(rows)].error>> >>
          ELSE <<>>)
         \o ErrorMessages(Tail(rows))

\* a file that fails validation makes its batch a failed batch
JsonlBatchDoneValidationFatal(b, save_ok, valid) ==
  /\ jstate = "batches"
  /\ b \in Batches
  /\ batch_results[b] = NoReport
  /\ \A t \in BatchRows(b) : pc[t] = "done"
  /\ LET rows == SeqOfSet(BatchRows(b))
         ok == SuccessfulKeys(rows)
         errs == ErrorMessages(rows)
     IN  /\ (ok = <<>>) => (save_ok /\ valid)
         /\ ~save_ok => valid
         /\ IF ok # <<>> /\ ~save_ok
              THEN /\ batch_results' = [batch_results EXCEPT ![b] =
                         [status |-> "made", batch_index |-> b, file_path |-> NoPath,
                          total_requests |-> Len(rows), successful_requests |-> 0,
                          failed_requests |-> Len(rows),
                          errors |-> << <<"Error processing batch", b>> >>]]
                   /\ artifacts' = artifacts
              ELSE /\ batch_results' = [batch_results EXCEPT ![b] =
                         [status |-> "made", batch_index |-> b,
                          file_path |-> IF ok = <<>> \/ ~valid THEN NoPath ELSE ArtifactName(b),
                          total_requests |-> Len(rows),
                          successful_requests |-> IF valid THEN Len(ok) ELSE 0,
                          failed_requests |-> IF valid THEN Len(rows) - Len(ok) ELSE Len(rows),
                          errors |-> IF valid THEN errs
                                     ELSE Append(errs, <<"JSONL file validation failed", b>>)]]
                   /\ artifacts' = IF ok = <<>> THEN artifacts
                                   ELSE [artifacts EXCEPT ![ArtifactName(b)] = ok]
  /\ Charge((IF save_ok THEN 0 ELSE 1) + (IF valid THEN 0 ELSE 1))
  /\ UNCHANGED <<pipeline, fetchVars, itemVars, batchVars, jstate, effective_batch_size, file_rows,
                 run_report, fileVars, runVars, shareVars>>

\* a batch that cannot save its file takes the batches still running with it
JsonlBatchDoneAbortsRun(b, save_ok, valid) ==
  /\ jstate = "batches"
  /\ b \in Batches
  /\ batch_results[b] = NoReport
  /\ \A t \in BatchRows(b) : pc[t] = "done"
  /\ LET rows == SeqOfSet(BatchRows(b))
         ok == SuccessfulKeys(rows)
         errs == ErrorMessages(rows)
     IN  /\ (ok = <<>>) => (save_ok /\ valid)
         /\ ~save_ok => valid
         /\ IF ok # <<>> /\ ~save_ok
              THEN /\ batch_results' = [c \in DOMAIN batch_results |->
                         IF batch_results[c] # NoReport THEN batch_results[c]
                         ELSE [status |-> "made", batch_index |-> c, file_path |-> NoPath,
                               total_requests |-> Cardinality(BatchRows(c)),
                               successful_requests |-> 0,
                               failed_requests |-> Cardinality(BatchRows(c)),
                               errors |-> << <<"Error processing batch", c>> >>]]
                   /\ artifacts' = artifacts
              ELSE /\ batch_results' = [batch_results EXCEPT ![b] =
                         [status |-> "made", batch_index |-> b,
                          file_path |-> IF ok = <<>> THEN NoPath ELSE ArtifactName(b),
                          total_requests |-> Len(rows),
                          successful_requests |-> Len(ok),
                          failed_requests |-> Len(rows) - Len(ok),
                          errors |-> IF valid THEN errs
                                     ELSE Append(errs, <<"JSONL file validation failed", b>>)]]
                   /\ artifacts' = IF ok = <<>> THEN artifacts
                                   ELSE [artifacts EXCEPT ![ArtifactName(b)] = ok]
  /\ Charge((IF save_ok THEN 0 ELSE 1) + (IF valid THEN 0 ELSE 1))
  /\ UNCHANGED <<pipeline, fetchVars, itemVars, batchVars, jstate, effective_batch_size, file_rows,
                 run_report, fileVars, runVars, shareVars>>

\* the reports are numbered in the order the batches complete
JsonlBatchDoneInCompletionOrder(b, save_ok, valid) ==
  /\ jstate = "batches"
  /\ b \in Batches
  /\ batch_results[b] = NoReport
  /\ \A t \in BatchRows(b) : pc[t] = "done"
  /\ LET rows == SeqOfSet(BatchRows(b))
         ok == SuccessfulKeys(rows)
         errs == ErrorMessages(rows)
     IN  /\ (ok = <<>>) => (save_ok /\ valid)
         /\ ~save_ok => valid
         /\ IF ok # <<>> /\ ~save_ok
              THEN /\ batch_results' = [batch_results EXCEPT ![b] =
                         [status |-> "made", batch_index |-> Cardinality({c \in Batches : batch_results[c] # NoReport}), file_path |-> NoPath,
                          total_requests |-> Len(rows), successful_requests |-> 0,
                          failed_requests |-> Len(rows),
                          errors |-> << <<"Error processing batch", b>> >>]]
                   /\ artifacts' = artifacts
              ELSE /\ batch_results' = [batch_results EXCEPT ![b] =
                         [status |-> "made", batch_index |-> Cardinality({c \in Batches : batch_results[c] # NoReport}),
                          file_path |-> IF ok = <<>> THEN NoPath ELSE ArtifactName(b),
                          total_requests |-> Len(rows),
                          successful_requests |-> Len(ok),
                          failed_requests |-> Len(rows) - Len(ok),
                          errors |-> IF valid THEN errs
                                     ELSE Append(errs, <<"JSONL file validation failed", b>>)]]
                   /\ artifacts' = IF ok = <<>> THEN artifacts
                                   ELSE [artifacts EXCEPT ![ArtifactName(b)] = ok]
  /\ Charge((IF save_ok THEN 0 ELSE 1) + (IF valid THEN 0 ELSE 1))
  /\ UNCHANGED <<pipeline, fetchVars, itemVars, batchVars, jstate, effective_batch_size, file_rows,
                 run_report, fileVars, runVars, shareVars>>

\* process_single_batch once the gather of its rows is complete: build the
\* records, save and validate the JSONL file, make the batch result
\* (prepare_jsonal_usecase.py:146-190; helper.py:107-148, 196-239).
JsonlBatchDone(b, save_ok, valid) ==
  /\ jstate = "batches"
  /\ b \in Batches
  /\ batch_results[b] = NoReport
  /\ \A t \in BatchRows(b) : pc[t] = "done"
  /\ LET rows == SeqOfSet(BatchRows(b))
         ok == SuccessfulKeys(rows)
         errs == ErrorMessages(rows)
     IN  /\ (ok = <<>>) => (save_ok /\ valid)
         /\ ~save_ok => valid
         /\ IF ok # <<>> /\ ~save_ok
              THEN /\ batch_results' = [batch_results EXCEPT ![b] =
                         [status |-> "made", batch_index |-> b, file_path |-> NoPath,
                          total_requests |-> Len(rows), successful_requests |-> 0,
                          failed_requests |-> Len(rows),
                          errors |-> << <<"Error processing batch", b>> >>]]
                   /\ artifacts' = artifacts
              ELSE /\ batch_results' = [batch_results EXCEPT ![b] =
                         [status |-> "made", batch_index |-> b,
                          file_path |-> IF ok = <<>> THEN NoPath ELSE ArtifactName(b),
                          total_requests |-> Len(rows),
                          successful_requests |-> Len(ok),
                          failed_requests |-> Len(rows) - Len(ok),
                          errors |-> IF valid THEN errs
                                     ELSE Append(errs, <<"JSONL file validation failed", b>>)]]
                   /\ artifacts' = IF ok = <<>> THEN artifacts
                                   ELSE [artifacts EXCEPT ![ArtifactName(b)] = ok]
  /\ Charge((IF save_ok THEN 0 ELSE 1) + (IF valid THEN 0 ELSE 1))
  /\ UNCHANGED <<pipeline, fetchVars, itemVars, batchVars, jstate, effective_batch_size, file_rows,
                 run_report, fileVars, runVars, shareVars>>

\* ---------------------------- request-building pipeline, VertexAI format
\* settings.VERTEX_AI_ENABLED = True: no image is fetched, the record carries
\* the locator itself.

\* The record of row t in the Gemini format: {"key": photo_id, "request": ...
\* "inline_data": {"data": base64_data}}  (prepare_jsonal_usecases/helper.py:119-143)
GeminiRecord(t) == [key |-> t, inline_data |-> t]

\* The record of row t in the VertexAI format: {"request": ... "file_data":
\* {"file_uri": image_url}}; photo_id is read from the row and not used
\* (prepare_jsonal_usecases/helper.py:160-182)
VertexRecord(t) == [file_uri |-> t]

\* save_jsonl_file with is_vertexai: vertexai_{input_file_name}_batch_{i}.jsonl
\* (prepare_jsonal_usecases/helper.py:203-205)
VertexArtifactName(b) == <<"vertexai", "input_file_name", "batch", b>>

\* execute up to the gather of the batches (prepare_jsonal_usecase.py:31-61)
VertexStart(read) ==
  /\ jstate = "start"
  /\ IF read = "ok" /\ Tasks # {}
       THEN /\ jstate' = "batches"
            /\ run_report' = run_report
       ELSE /\ jstate' = "done"
            /\ run_report' = [status |-> "error", total_batches |-> 0,
                              message |-> IF read = "ok" THEN "empty" ELSE read]
  /\ Charge(ReadFaults(read))
  /\ UNCHANGED <<pipeline, fetchVars, itemVars, batchVars, effective_batch_size, file_rows,
                 batch_results, artifacts, fileVars, runVars, shareVars>>

\* process_single_batch with process_batch_parallel_vertexai: the records of
\* the rows are built in row order, the first built rows only if building
\* raised on the way; then the file is saved and validated as in the Gemini
\* format (prepare_jsonal_usecase.py:146-190; helper.py:150-194, 196-239)
VertexBatchDone(b, built, save_ok, valid) ==
  /\ jstate = "batches"
  /\ b \in Batches
  /\ batch_results[b] = NoReport
  /\ LET rows == SeqOfSet(BatchRows(b))
         ok == [j \in 1..Min(built, Len(rows)) |-> VertexRecord(rows[j])]
         errs == IF built < Len(rows) THEN << <<"Error processing VertexAI batch">> >>
                 ELSE <<>>
     IN  /\ built <= Len(rows)
         /\ (ok = <<>>) => (save_ok /\ valid)
         /\ ~save_ok => valid
         /\ IF ok # <<>> /\ ~save_ok
              THEN /\ batch_results' = [batch_results EXCEPT ![b] =
                         [status |-> "made", batch_index |-> b, file_path |-> NoPath,
                          total_requests |-> Len(rows), successful_requests |-> 0,
                          failed_requests |-> Len(rows),
                          errors |-> << <<"Error processing batch", b>> >>]]
                   /\ artifacts' = artifacts
              ELSE /\ batch_results' = [batch_results EXCEPT ![b] =
                         [status |-> "made", batch_index |-> b,
                          file_path |-> IF ok = <<>> THEN NoPath ELSE VertexArtifactName(b),
                          total_requests |-> Len(rows),
                          successful_requests |-> Len(ok),
                          failed_requests |-> Len(rows) - Len(ok),
                          errors |-> IF valid THEN errs
                                     ELSE Append(errs, <<"JSONL file validation failed", b>>)]]
                   /\ artifacts' = IF ok = <<>> THEN artifacts
                                   ELSE [artifacts EXCEPT ![VertexArtifactName(b)] = ok]
         /\ Charge((IF built < Len(rows) THEN 1 ELSE 0)
                   + (IF save_ok THEN 0 ELSE 1) + (IF valid THEN 0 ELSE 1))
  /\ UNCHANGED <<pipeline, fetchVars, itemVars, batchVars, jstate, effective_batch_size, file_rows,
                 run_report, fileVars, runVars, shareVars>>

VertexInit(n, bs) ==
  /\ jstate = "start"
  /\ effective_batch_size = bs
  /\ file_rows = [j \in 1..n |-> "full"]
  /\ batch_results = [b \in 0..((n + bs - 1) \div bs - 1) |-> NoReport]
  /\ artifacts = [name \in {VertexArtifactName(b) : b \in 0..((n + bs - 1) \div bs - 1)} |-> <<>>]
  /\ run_report = NoReport

\* ------------------------- request-building pipeline, choice of batch size
\* Optional[int]: None is the empty sequence, the integer s is <<s>>
None == <<>>

\* PrepareJsonalRequest.batch_size: Optional[int] = Field(None, ge=200, le=800)
\* (models/schemas/prepare_jsonal_schemas.py:7): the request is accepted if the
\* size is absent or within the range.
MinBatchSize == 200
MaxBatchSize == 800
PrepareJsonalRequest(batch_size) ==
  \/ batch_size = None
  \/ (batch_size # None /\ MinBatchSize <= batch_size[1] /\ batch_size[1] <= MaxBatchSize)

\* The sizes a request may carry, the values settings.JSONL_BATCH_SIZE may be
\* configured to (config/settings.py:31 gives 700 unless the environment gives
\* another integer; no range is checked there) and the numbers of rows of the
\* input files.
RequestSizes == {None} \cup {<<s>> : s \in {199, 200, 500, 800, 801}}
ConfiguredSizes == {100, 700, 1000}
SizedRowCounts == {0, 1, 199, 200, 201, 700, 800, 801, 1601}

\* batch_size if batch_size is not None else settings.JSONL_BATCH_SIZE; the
\* range check that follows is commented out (prepare_jsonal_usecase.py:32-36)
EffectiveBatchSize(batch_size, JSONL_BATCH_SIZE) ==
  IF batch_size # None THEN batch_size[1] ELSE JSONL_BATCH_SIZE

\* PrepareJsonalController.prepare_jsonal on a request carrying batch_size,
\* then execute up to create_batches: the request is validated against the
\* schema, the effective size is chosen, the file is read and partitioned
\* (prepare_jsonal_controller.py:11-29; prepare_jsonal_usecase.py:31-61;
\* helper.py:52-65)
prepare_jsonal(batch_size, JSONL_BATCH_SIZE, read) ==
  /\ jstate = "start"
  /\ IF ~PrepareJsonalRequest(batch_size)
       THEN /\ jstate' = "rejected"
            /\ read = "ok"
            /\ UNCHANGED <<effective_batch_size, batch_results, artifacts, run_report>>
            /\ NoFault
       ELSE /\ effective_batch_size' = EffectiveBatchSize(batch_size, JSONL_BATCH_SIZE)
            /\ Charge(ReadFaults(read))
            /\ IF read = "ok" /\ Tasks # {}
                 THEN LET n == Cardinality(Tasks)
                          bs == effective_batch_size'
                          batches == 0..((n + bs - 1) \div bs - 1)
                      IN  /\ jstate' = "batches"
                          /\ batch_results' = [b \in batches |-> NoReport]
                          /\ artifacts' = [name \in {ArtifactName(b) : b \in batches} |-> <<>>]
                          /\ run_report' = run_report
                 ELSE /\ jstate' = "done"
                      /\ run_report' = [status |-> "error", total_batches |-> 0,
                                        message |-> IF read = "ok" THEN "empty" ELSE read]
                      /\ UNCHANGED <<batch_results, artifacts>>
  /\ UNCHANGED <<pipeline, fetchVars, itemVars, batchVars, file_rows,
                 fileVars, runVars, shareVars>>

RECURSIVE SumOver(_, _)
SumOver(f, S) ==
  IF S = {} THEN 0
  ELSE LET x == CHOOSE y \in S : TRUE IN f[x] + SumOver(f, S \ {x})

\* a / b of Python: a value, or ZeroDivisionError raised
Rate(x) == [fault |-> FALSE, value |-> x]
ZeroDivisionError == [fault |-> TRUE, value |-> 0]
Quotient(a, b) == IF b = 0 THEN ZeroDivisionError ELSE Rate(a \div b)

\* the rate is computed whatever the total
SuccessRateUnguarded(total_successful, total_failed) ==
  Quotient(total_successful * 100, total_successful + total_failed)

\* success_rate of the summary, in whole percents
\* (prepare_jsonal_usecase.py:80)
SuccessRate(total_successful, total_failed) ==
  IF total_successful + total_failed > 0
    THEN Quotient(total_successful * 100, total_successful + total_failed)
    ELSE Rate(0)

\* the response of execute made from the batch results; an exception raised on
\* the way is turned into the error response (prepare_jsonal_usecase.py:63-96)
Summary(batch_reports) ==
  LET B == DOMAIN batch_reports
      total_successful == SumOver([b \in B |-> batch_reports[b].successful_requests], B)
      total_failed == SumOver([b \in B |-> batch_reports[b].failed_requests], B)
      rate == SuccessRate(total_successful, total_failed)
  IN  IF rate.fault
        THEN [status |-> "error", total_batches |-> 0, message |-> "exception"]
        ELSE [status |-> "success", total_batches |-> Cardinality(B),
              total_requests |-> total_successful + total_failed,
              successful_requests |-> total_successful,
              failed_requests |-> total_failed,
              success_rate |-> rate.value]

\* execute after the gather of the batches: the summary
\* (prepare_jsonal_usecase.py:63-84)
JsonlFinish ==
  /\ jstate = "batches"
  /\ \A b \in DOMAIN batch_results : batch_results[b] # NoReport
  /\ run_report' = Summary(batch_results)
  /\ jstate' = "done"
  /\ NoFault
  /\ UNCHANGED <<pipeline, fetchVars, itemVars, batchVars, effective_batch_size, file_rows,
                 batch_results, artifacts, fileVars, runVars, shareVars>>

JsonlInit(n, bs) ==
  /\ jstate = "start"
  /\ effective_batch_size = bs
  /\ batch_results = [b \in 0..((n + bs - 1) \div bs - 1) |-> NoReport]
  /\ artifacts = [name \in {ArtifactName(b) : b \in 0..((n + bs - 1) \div bs - 1)} |-> <<>>]
  /\ run_report = NoReport

JsonlOff ==
  /\ jstate = "off"
  /\ effective_batch_size = 1
  /\ file_rows = <<>>
  /\ batch_results = <<>>
  /\ artifacts = <<>>
  /\ run_report = NoReport

\* ------------------------------------------------- enrichment file run
\* GenerateBatchDescriptionUsecase.process_single_tsv_file
\* (generate_batch_description_usecase.py:62-163). The sub-batch executor is
\* taken as one call that returns one result per row of the batch or raises.
Header == 0
NoFileReport == [status |-> "none", message |-> "none"]
ErrorReport(message) == [status |-> "error", message |-> message]

\* Helper.create_batches (generate_batch_description_usecases/helper.py:35-47)
NumFileBatches == (Len(df) + BATCH_SIZE - 1) \div BATCH_SIZE

\* df.iloc[i:i + batch_size + 1]: each batch takes one row of the next
FileBatchOverlapping(b) ==
  SubSeq(df, b * BATCH_SIZE + 1, Min((b + 1) * BATCH_SIZE + 1, Len(df)))

FileBatch(b) == SubSeq(df, b * BATCH_SIZE + 1, Min((b + 1) * BATCH_SIZE, Len(df)))

\* the handler records the error and the batch loop goes on
FileFailsAndRetries(message, remove_ok) ==
  /\ staging' = staging
  /\ cleanup' = cleanup
  /\ fstate' = "batching"
  /\ file_report' = ErrorReport(message)

\* the handler returns the error report and leaves the temp file alone
FileFailsNoCleanup(message, remove_ok) ==
  /\ staging' = staging
  /\ cleanup' = "nothing"
  /\ fstate' = "error"
  /\ file_report' = ErrorReport(message)

\* except Exception: remove the temp file if it exists and was not moved, then
\* return the error report; a failing os.remove is only logged
\* (generate_batch_description_usecase.py:148-163)
FileFails(message, remove_ok) ==
  /\ staging' = IF remove_ok THEN <<>> ELSE staging
  /\ cleanup' = IF staging = <<>> THEN "nothing"
                ELSE IF remove_ok THEN "removed" ELSE "remove_failed"
  /\ fstate' = "error"
  /\ file_report' = ErrorReport(message)

\* pd.read_csv and the column check (generate_batch_description_usecase.py:66-80)
FileRead(outcome) ==
  /\ fstate = "start"
  /\ CASE outcome = "ok" ->
            /\ fstate' = "read"
            /\ UNCHANGED <<staging, file_report, cleanup>>
       [] outcome = "no_url_column" ->
            /\ fstate' = "error"
            /\ file_report' = ErrorReport("Required column 'photo_image_url' not found")
            /\ UNCHANGED <<staging, cleanup>>
       [] OTHER -> FileFails("read", TRUE)
  /\ UNCHANGED <<df, BATCH_SIZE, batch_index, updated_batch_df, written, final,
                 processed_rows>>

\* create the temp file with the header line, then the batches
\* (generate_batch_description_usecase.py:82-105)
FileCreateStaging(ok) ==
  /\ fstate = "read"
  /\ IF ok
       THEN /\ staging' = <<Header>>
            /\ fstate' = "batching"
            /\ UNCHANGED <<file_report, cleanup>>
       ELSE FileFails("staging", TRUE)
  /\ UNCHANGED <<df, BATCH_SIZE, batch_index, updated_batch_df, written, final,
                 processed_rows>>

\* for batch_index, batch_df in enumerate(batches): process_batch_parallel is
\* awaited                              (generate_batch_description_usecase.py:108-113)
FileBeginBatch ==
  /\ fstate = "batching"
  /\ batch_index < NumFileBatches
  /\ fstate' = "processing"
  /\ UNCHANGED <<df, BATCH_SIZE, batch_index, updated_batch_df, written, staging, final,
                 processed_rows, file_report, cleanup>>

\* process_batch_parallel returned or raised; update_dataframe_with_results
\* (generate_batch_description_usecase.py:113-116)
FileEndBatch(ok, remove_ok) ==
  /\ fstate = "processing"
  /\ ok => remove_ok
  /\ IF ok
       THEN /\ updated_batch_df' = FileBatch(batch_index)
            /\ written' = 0
            /\ fstate' = "appending"
            /\ UNCHANGED <<staging, file_report, cleanup>>
       ELSE /\ FileFails("batch", remove_ok)
            /\ UNCHANGED <<updated_batch_df, written>>
  /\ UNCHANGED <<df, BATCH_SIZE, batch_index, final, processed_rows>>

\* updated_batch_df.to_csv(temp_file_path, mode='a', header=False): the rows
\* reach the file one write after the other, not in one atomic step
\* (generate_batch_description_usecase.py:119)
FileAppendRow ==
  /\ fstate = "appending"
  /\ written < Len(updated_batch_df)
  /\ staging' = Append(staging, updated_batch_df[written + 1])
  /\ written' = written + 1
  /\ UNCHANGED <<fstate, df, BATCH_SIZE, batch_index, updated_batch_df, final,
                 processed_rows, file_report, cleanup>>

\* to_csv raises part way (disk full, I/O error)
FileAppendFails(remove_ok) ==
  /\ fstate = "appending"
  /\ written < Len(updated_batch_df)
  /\ FileFails("append", remove_ok)
  /\ UNCHANGED <<df, BATCH_SIZE, batch_index, updated_batch_df, written, final,
                 processed_rows>>

\* the loop goes on to the next batch while the append is still writing
FileAppendDoneEarly ==
  /\ fstate = "appending"
  /\ processed_rows' = processed_rows + Len(updated_batch_df)
  /\ batch_index' = batch_index + 1
  /\ fstate' = "batching"
  /\ UNCHANGED <<df, BATCH_SIZE, updated_batch_df, written, staging, final, file_report,
                 cleanup>>

\* to_csv returned: processed_rows += len(updated_batch_df); next batch
\* (generate_batch_description_usecase.py:119-122, 109)
FileAppendDone ==
  /\ fstate = "appending"
  /\ written = Len(updated_batch_df)
  /\ processed_rows' = processed_rows + Len(updated_batch_df)
  /\ batch_index' = batch_index + 1
  /\ fstate' = "batching"
  /\ UNCHANGED <<df, BATCH_SIZE, updated_batch_df, written, staging, final, file_report,
                 cleanup>>

\* the move may start at any time
LoopOverAlways == TRUE
\* the batch loop is over                (generate_batch_description_usecase.py:109)
LoopOver == batch_index = NumFileBatches

\* os.makedirs of the output directory and shutil.move of the temp file: the
\* move succeeds, fails before anything is at the destination, or fails after
\* the copy (the source could not be removed)
\* (generate_batch_description_usecase.py:124-146)
FileFinalize(outcome, remove_ok) ==
  /\ fstate = "batching"
  /\ LoopOver
  /\ outcome = "moved" => remove_ok
  /\ CASE outcome = "moved" ->
            /\ final' = staging
            /\ staging' = <<>>
            /\ fstate' = "success"
            /\ file_report' = [status |-> "success", message |-> "none"]
            /\ UNCHANGED cleanup
       [] outcome = "makedirs_fails" ->
            /\ FileFails("makedirs", remove_ok)
            /\ UNCHANGED final
       [] outcome = "move_fails" ->
            /\ FileFails("move", remove_ok)
            /\ UNCHANGED final
       [] OTHER ->
            /\ FileFails("move", remove_ok)
            /\ final' = staging
  /\ UNCHANGED <<df, BATCH_SIZE, batch_index, updated_batch_df, written, processed_rows>>

\* the process is killed: what is on disk stays as it is
FileCrash ==
  /\ fstate \in {"start", "read", "batching", "processing", "appending"}
  /\ fstate' = "crashed"
  /\ UNCHANGED <<df, BATCH_SIZE, batch_index, updated_batch_df, written, staging, final,
                 processed_rows, file_report, cleanup>>

FileInit(n, bs) ==
  /\ fstate = "start"
  /\ df = [j \in 1..n |-> j]
  /\ BATCH_SIZE = bs
  /\ batch_index = 0
  /\ updated_batch_df = <<>>
  /\ written = 0
  /\ staging = <<>>
  /\ final = <<>>
  /\ processed_rows = 0
  /\ file_report = NoFileReport
  /\ cleanup = "none"

FileOff ==
  /\ fstate = "off"
  /\ df = <<>>
  /\ BATCH_SIZE = 1
  /\ batch_index = 0
  /\ updated_batch_df = <<>>
  /\ written = 0
  /\ staging = <<>>
  /\ final = <<>>
  /\ processed_rows = 0
  /\ file_report = NoFileReport
  /\ cleanup = "none"

\* ------------------------------------- concurrent enrichment file runs
\* process_single_tsv_file as far as its temp file goes, for file runs that
\* are in progress together in one event loop (one per request being served).
Stems == {"a", "b"}
Runs == 1..NRuns

\* temp_file_name = f"temp_{tsv_file.stem}_{timestamp}.tsv" with timestamp =
\* datetime.now().strftime("%d_%m_%H_%M")
\* (generate_batch_description_usecase.py:84-86)
TempName(stem, m) == <<"temp", stem, m>>

Line(r, what) == [by |-> r, line |-> what]

Exists(path) == path \in DOMAIN intermediate_outputs
Without(path) ==
  [p \in DOMAIN intermediate_outputs \ {path} |-> intermediate_outputs[p]]

\* time passes
ClockTick ==
  /\ minute < MaxMinute
  /\ minute' = minute + 1
  /\ UNCHANGED <<enrich_runs, intermediate_outputs>>

\* header_df.to_csv(temp_file_path): the temp file is created, or truncated,
\* with the header line        (generate_batch_description_usecase.py:82-97)
ConcCreate(r) ==
  /\ enrich_runs[r].pos = "start"
  /\ LET path == TempName(enrich_runs[r].stem, minute)
     IN  /\ enrich_runs' = [enrich_runs EXCEPT ![r].pos = "batching",
                                                ![r].temp_file_path = path]
         /\ intermediate_outputs' = (path :> <<Line(r, "header")>>) @@ intermediate_outputs
  /\ UNCHANGED minute

\* a batch is processed and appended: to_csv(temp_file_path, mode='a') adds to
\* the file of that name, creating it if it is not there
\* (generate_batch_description_usecase.py:108-118)
ConcAppend(r) ==
  /\ enrich_runs[r].pos = "batching"
  /\ enrich_runs[r].batch_index < RunBatches
  /\ LET path == enrich_runs[r].temp_file_path
         old == IF Exists(path) THEN intermediate_outputs[path] ELSE <<>>
     IN  intermediate_outputs' =
           (path :> Append(old, Line(r, enrich_runs[r].batch_index))) @@ intermediate_outputs
  /\ enrich_runs' = [enrich_runs EXCEPT ![r].batch_index = @ + 1]
  /\ UNCHANGED minute

\* a batch fails: the handler removes the file at temp_file_path if there is
\* one and returns the error report
\* (generate_batch_description_usecase.py:148-163)
ConcBatchFails(r) ==
  /\ enrich_runs[r].pos = "batching"
  /\ enrich_runs[r].batch_index < RunBatches
  /\ LET path == enrich_runs[r].temp_file_path
     IN  intermediate_outputs' = IF Exists(path) THEN Without(path)
                                 ELSE intermediate_outputs
  /\ enrich_runs' = [enrich_runs EXCEPT ![r].pos = "returned", ![r].status = "error"]
  /\ UNCHANGED minute

\* shutil.move(temp_file_path, final_output_path) after the last batch; it
\* raises when the temp file is gone, and the handler then finds nothing to
\* remove                  (generate_batch_description_usecase.py:123-163)
ConcMove(r) ==
  /\ enrich_runs[r].pos = "batching"
  /\ enrich_runs[r].batch_index = RunBatches
  /\ LET path == enrich_runs[r].temp_file_path
     IN  IF Exists(path)
           THEN /\ enrich_runs' = [enrich_runs EXCEPT
                       ![r].pos = "returned", ![r].status = "success",
                       ![r].output = intermediate_outputs[path]]
                /\ intermediate_outputs' = Without(path)
           ELSE /\ enrich_runs' = [enrich_runs EXCEPT
                       ![r].pos = "returned", ![r].status = "error"]
                /\ UNCHANGED intermediate_outputs
  /\ UNCHANGED minute

ConcInit ==
  /\ enrich_runs \in [Runs -> [pos : {"start"}, stem : Stems, temp_file_path : {NoPath},
                               batch_index : {0}, status : {"none"}, output : {<<>>}]]
  /\ intermediate_outputs = <<>>
  /\ minute = 0

ShareOff ==
  /\ enrich_runs = <<>>
  /\ intermediate_outputs = <<>>
  /\ minute = 0

\* ------------------------------------------------------ enrichment run
\* GenerateBatchDescriptionUsecase.execute
\* (generate_batch_description_usecase.py:17-60)
NoResults == [status |-> "none", files_processed |-> 0, processed_files |-> <<>>,
              errors |-> <<>>]

\* process_single_tsv_file is entered for a file of n rows
\* (generate_batch_description_usecase.py:43, 62-66)
FileEnter(n) ==
  /\ fstate' = "start"
  /\ df' = [j \in 1..n |-> j]
  /\ batch_index' = 0
  /\ updated_batch_df' = <<>>
  /\ written' = 0
  /\ staging' = <<>>
  /\ final' = <<>>
  /\ processed_rows' = 0
  /\ file_report' = NoFileReport
  /\ cleanup' = "none"
  /\ UNCHANGED BATCH_SIZE

\* get_tsv_files and the checks on what it returned; the first file is entered
\* (generate_batch_description_usecase.py:25-43)
RunStart(listed, n) ==
  /\ rstate = "start"
  /\ IF listed /\ tsv_files > 0
       THEN /\ rstate' = "loop"
            /\ results' = [NoResults EXCEPT !.status = "success"]
            /\ FileEnter(n)
       ELSE /\ rstate' = "returned"
            /\ results' = [NoResults EXCEPT !.status = "error"]
            /\ UNCHANGED fileVars
  /\ UNCHANGED <<tsv_files, file_index>>

\* the failure of a file is raised to the caller of execute
RunFileDoneRaises(n) ==
  /\ rstate = "loop"
  /\ fstate \in {"success", "error"}
  /\ results' = [results EXCEPT
        !.processed_files = Append(@, file_report),
        !.files_processed = IF file_report.status = "success" THEN @ + 1 ELSE @,
        !.errors = IF file_report.status = "success" THEN @
                   ELSE Append(@, [file |-> file_index, error |-> file_report.message])]
  /\ IF file_report.status # "success"
       THEN /\ rstate' = "raised"
            /\ UNCHANGED <<file_index, fileVars>>
       ELSE IF file_index + 1 < tsv_files
       THEN /\ file_index' = file_index + 1
            /\ rstate' = "loop"
            /\ FileEnter(n)
       ELSE /\ rstate' = "returned"
            /\ UNCHANGED <<file_index, fileVars>>
  /\ UNCHANGED tsv_files

\* a failed file makes the status of the run "error"
RunFileDoneFailsRun(n) ==
  /\ rstate = "loop"
  /\ fstate \in {"success", "error"}
  /\ results' = [results EXCEPT
        !.status = IF file_report.status = "success" THEN @ ELSE "error",
        !.processed_files = Append(@, file_report),
        !.files_processed = IF file_report.status = "success" THEN @ + 1 ELSE @,
        !.errors = IF file_report.status = "success" THEN @
                   ELSE Append(@, [file |-> file_index, error |-> file_report.message])]
  /\ IF file_index + 1 < tsv_files
       THEN /\ file_index' = file_index + 1
            /\ rstate' = "loop"
            /\ FileEnter(n)
       ELSE /\ rstate' = "returned"
            /\ UNCHANGED <<file_index, fileVars>>
  /\ UNCHANGED tsv_files

\* a failed file ends the run
RunFileDoneAborts(n) ==
  /\ rstate = "loop"
  /\ fstate \in {"success", "error"}
  /\ results' = [results EXCEPT
        !.processed_files = Append(@, file_report),
        !.files_processed = IF file_report.status = "success" THEN @ + 1 ELSE @,
        !.errors = IF file_report.status = "success" THEN @
                   ELSE Append(@, [file |-> file_index, error |-> file_report.message])]
  /\ IF file_index + 1 < tsv_files /\ file_report.status = "success"
       THEN /\ file_index' = file_index + 1
            /\ rstate' = "loop"
            /\ FileEnter(n)
       ELSE /\ rstate' = "returned"
            /\ UNCHANGED <<file_index, fileVars>>
  /\ UNCHANGED tsv_files

\* process_single_tsv_file returned: record the file's report, then the next
\* file or the end of the run      (generate_batch_description_usecase.py:42-56)
RunFileDone(n) ==
  /\ rstate = "loop"
  /\ fstate \in {"success", "error"}
  /\ results' = [results EXCEPT
        !.processed_files = Append(@, file_report),
        !.files_processed = IF file_report.status = "success" THEN @ + 1 ELSE @,
        !.errors = IF file_report.status = "success" THEN @
                   ELSE Append(@, [file |-> file_index, error |-> file_report.message])]
  /\ IF file_index + 1 < tsv_files
       THEN /\ file_index' = file_index + 1
            /\ rstate' = "loop"
            /\ FileEnter(n)
       ELSE /\ rstate' = "returned"
            /\ UNCHANGED <<file_index, fileVars>>
  /\ UNCHANGED tsv_files

RunInit(N, bs) ==
  /\ rstate = "start"
  /\ tsv_files = N
  /\ file_index = 0
  /\ results = NoResults
  /\ fstate = "off"
  /\ df = <<>>
  /\ BATCH_SIZE = bs
  /\ batch_index = 0
  /\ updated_batch_df = <<>>
  /\ written = 0
  /\ staging = <<>>
  /\ final = <<>>
  /\ processed_rows = 0
  /\ file_report = NoFileReport
  /\ cleanup = "none"

RunOff ==
  /\ rstate = "off"
  /\ tsv_files = 0
  /\ file_index = 0
  /\ results = NoResults

FetchInit(k, mr, T, start) ==
  /\ MAX_CONCURRENT_REQUESTS = k
  /\ max_retries = mr
  /\ concurrency_limit = k
  /\ pc = [t \in T |-> start]
  /\ attempt = [t \in T |-> 0]
  /\ last_exception = [t \in T |-> "none"]
  /\ waits = [t \in T |-> <<>>]
  /\ gets = [t \in T |-> 0]
  /\ reports = [t \in T |-> 0]
  /\ fret = [t \in T |-> NoRet]

\* ------------------------------------------------------------- SpecFetch
\* NTasks callers fetch concurrently through one ApiService.
InitFetch ==
  /\ pipeline = "fetch"
  /\ \E k \in 1..MaxPermits, mr \in 0..MaxMaxRetries : FetchInit(k, mr, 1..NTasks, "acquire")
  /\ ItemInit(1..NTasks)
  /\ BatchOff
  /\ JsonlOff
  /\ FileOff
  /\ RunOff
  /\ ShareOff
  /\ faults = 0

\* The number of failures injected into the fetches of SpecFetch is not bounded.
NextFetch ==
  \E t \in Tasks :
    \/ Acquire(t) /\ UNCHANGED aboveFetch /\ NoFault
    \/ GetSucceeds(t) /\ UNCHANGED aboveFetch /\ NoFault
    \/ \E exc \in Transient : GetTransient(t, exc) /\ UNCHANGED aboveFetch /\ NoFault
    \/ BackoffDone(t) /\ UNCHANGED aboveFetch /\ NoFault
    \/ \E exc \in NonTransient : GetFails(t, exc) /\ UNCHANGED aboveFetch /\ NoFault
    \/ \E ok \in BOOLEAN : Report(t, ok) /\ UNCHANGED aboveFetch /\ NoFault

SpecFetch == InitFetch /\ [][NextFetch]_vars

\* ------------------------------------------------------------- SpecBatch
\* One call of the enrichment process_batch_parallel on a batch of 1..NBatchRows
\* rows; the callers leave max_retries at its default.
InitBatch ==
  /\ pipeline = "enrich"
  /\ \E k \in 1..MaxPermits, n \in 1..NBatchRows :
        /\ FetchInit(k, DefaultMaxRetries, 1..n, "idle")
        /\ ItemInit(1..n)
        /\ BatchInit(n)
  /\ JsonlOff
  /\ FileOff
  /\ RunOff
  /\ ShareOff
  /\ faults = 0

\* A step of the fetch of row t, inside a pipeline run.
PipelineFetch(t) ==
  \/ Acquire(t) /\ UNCHANGED aboveFetch /\ NoFault
  \/ GetSucceeds(t) /\ UNCHANGED aboveFetch /\ NoFault
  \/ \E exc \in Transient : GetTransient(t, exc) /\ UNCHANGED aboveFetch /\ Charge(1)
  \/ BackoffDone(t) /\ UNCHANGED aboveFetch /\ NoFault
  \/ \E exc \in NonTransient : GetFails(t, exc) /\ UNCHANGED aboveFetch /\ Charge(1)
  \/ \E ok \in BOOLEAN : Report(t, ok) /\ UNCHANGED aboveFetch /\ Charge(IF ok THEN 0 ELSE 1)

NextBatch ==
  \/ LaunchSubBatch
  \/ GatherDone
  \/ CooldownDone
  \/ \E ok \in BOOLEAN : BatchClose(ok)
  \/ \E t \in Tasks :
       \/ PipelineFetch(t)
       \/ /\ pc[t] = "fetched"
          /\ \E decode_ok \in BOOLEAN, ch \in LedgerChoices :
               EnrichAfterFetch(t, decode_ok, ch)
       \/ /\ pc[t] = "llm"
          /\ \E ok \in BOOLEAN, ch \in LedgerChoices : LlmReturns(t, ok, ch)
       \/ /\ pc[t] = "usage"
          /\ \E ok \in BOOLEAN, parse \in ParseOutcomes, ch \in LedgerChoices :
               UsageReturns(t, ok, parse, ch)

SpecBatch == InitBatch /\ [][NextBatch]_vars

\* ------------------------------------------------------------ SpecLedger
\* One batch of 1..NLedgerRows rows through the enrichment sub-batch executor
\* when intermediate_outputs/failed_image_urls.json, which no run ever resets,
\* already holds the entries of earlier runs (their rows are numbered from 0
\* downwards).
InitLedger ==
  /\ pipeline = "enrich"
  /\ \E k \in 1..MaxPermits, n \in 1..NLedgerRows, e \in 0..MaxEarlierEntries :
        /\ FetchInit(k, DefaultMaxRetries, 1..n, "idle")
        /\ result = [t \in 1..n |-> NoResult]
        /\ ledger = [j \in 1..e |-> Entry(1 - j, "Failed to load image")]
        /\ ledger_calls = [t \in 1..n |-> 0]
        /\ llm_calls = [t \in 1..n |-> 0]
        /\ parsed_text = [t \in 1..n |-> "unset"]
        /\ BatchInit(n)
  /\ JsonlOff
  /\ FileOff
  /\ RunOff
  /\ ShareOff
  /\ faults = 0

SpecLedger == InitLedger /\ [][NextBatch]_vars

\* --------------------------------------------------------- SpecLongBatch
\* One batch of 1..NLongBatchRows rows, several sub-batches long, through the
\* enrichment sub-batch executor, in a run in which at most one thing fails.
InitLongBatch ==
  /\ pipeline = "enrich"
  /\ \E k \in 1..MaxPermits, n \in 1..NLongBatchRows :
        /\ FetchInit(k, DefaultMaxRetries, 1..n, "idle")
        /\ ItemInit(1..n)
        /\ BatchInit(n)
  /\ JsonlOff
  /\ FileOff
  /\ RunOff
  /\ ShareOff
  /\ faults = MaxFaults - 1

SpecLongBatch == InitLongBatch /\ [][NextBatch]_vars

\* ------------------------------------------------------------- SpecJsonl
\* One request-building run (Gemini format, VERTEX_AI_ENABLED = False) over an
\* input of 0..NJsonlRows valid rows.
InitJsonl ==
  /\ pipeline = "jsonl"
  /\ \E k \in 1..MaxPermits, n \in 0..NJsonlRows, bs \in 1..MaxJsonlBatchSize :
        /\ FetchInit(k, DefaultMaxRetries, 1..n, "idle")
        /\ ItemInit(1..n)
        /\ JsonlInit(n, bs)
        /\ file_rows = [j \in 1..n |-> "full"]
  /\ BatchOff
  /\ FileOff
  /\ RunOff
  /\ ShareOff
  /\ faults = 0

NextJsonl ==
  \/ \E read \in ReadOutcomes : JsonlStart(read)
  \/ \E b \in Batches, save_ok \in BOOLEAN, valid \in BOOLEAN : JsonlBatchDone(b, save_ok, valid)
  \/ JsonlFinish
  \/ \E t \in Tasks :
       \/ PipelineFetch(t)
       \/ JsonlAfterFetch(t)

SpecJsonl == InitJsonl /\ [][NextJsonl]_vars

\* ------------------------------------------------------------ SpecVertex
\* One request-building run in the VertexAI format (VERTEX_AI_ENABLED = True)
\* over an input of 0..NJsonlRows valid rows.
InitVertex ==
  /\ pipeline = "vertexai"
  /\ \E n \in 0..NJsonlRows, bs \in 1..MaxJsonlBatchSize :
        /\ FetchInit(MaxPermits, DefaultMaxRetries, 1..n, "idle")
        /\ ItemInit(1..n)
        /\ VertexInit(n, bs)
  /\ BatchOff
  /\ FileOff
  /\ RunOff
  /\ ShareOff
  /\ faults = 0

NextVertex ==
  \/ \E read \in ReadOutcomes : VertexStart(read)
  \/ \E b \in Batches, built \in 0..MaxJsonlBatchSize, save_ok \in BOOLEAN, valid \in BOOLEAN :
       VertexBatchDone(b, built, save_ok, valid)
  \/ JsonlFinish

SpecVertex == InitVertex /\ [][NextVertex]_vars

\* --------------------------------------------------------- SpecBatchSize
\* One request to the request-building pipeline up to the partition of the
\* input: the size the request carries, the configured default and the number
\* of rows of the file vary.
InitBatchSize ==
  /\ pipeline = "jsonl_batch_size"
  /\ \E n \in SizedRowCounts :
        /\ FetchInit(MaxPermits, DefaultMaxRetries, 1..n, "idle")
        /\ ItemInit(1..n)
        /\ file_rows = [j \in 1..n |-> "full"]
  /\ jstate = "start"
  /\ effective_batch_size = 0
  /\ batch_results = <<>>
  /\ artifacts = <<>>
  /\ run_report = NoReport
  /\ BatchOff
  /\ FileOff
  /\ RunOff
  /\ ShareOff
  /\ faults = 0

NextBatchSize ==
  \E batch_size \in RequestSizes, JSONL_BATCH_SIZE \in ConfiguredSizes, read \in ReadOutcomes :
    prepare_jsonal(batch_size, JSONL_BATCH_SIZE, read)

SpecBatchSize == InitBatchSize /\ [][NextBatchSize]_vars

\* ----------------------------------------------------------- SpecJsonlRows
\* One request-building run over an input file of up to NJsonlRows rows, some
\* of which may lack the photo_id or the photo_image_url: the rows of the run
\* are those dropna keeps.
InitJsonlRows ==
  /\ pipeline = "jsonl"
  /\ \E len \in 0..NJsonlRows, bs \in 1..MaxJsonlBatchSize :
       \E file \in [1..len -> RowKinds] :
         /\ file_rows = file
         /\ FetchInit(MaxPermits, DefaultMaxRetries, 1..Len(DropNa(file)), "idle")
         /\ ItemInit(1..Len(DropNa(file)))
         /\ JsonlInit(Len(DropNa(file)), bs)
  /\ BatchOff
  /\ FileOff
  /\ RunOff
  /\ ShareOff
  /\ faults = 0

SpecJsonlRows == InitJsonlRows /\ [][NextJsonl]_vars

\* ------------------------------------------------------------ SpecSummary
\* The summary of execute applied to any list of batch results, the empty list
\* and batches without requests included.
InitSummary ==
  /\ pipeline = "summary"
  /\ FetchInit(1, DefaultMaxRetries, {}, "idle")
  /\ ItemInit({})
  /\ BatchOff
  /\ jstate = "batches"
  /\ effective_batch_size = 1
  /\ file_rows = <<>>
  /\ artifacts = <<>>
  /\ run_report = NoReport
  /\ \E k \in 0..MaxSummaryBatches :
       \E s \in [0..(k - 1) -> 0..MaxBatchCount], f \in [0..(k - 1) -> 0..MaxBatchCount] :
         batch_results = [b \in 0..(k - 1) |->
            [status |-> "made", batch_index |-> b,
             file_path |-> IF s[b] = 0 THEN NoPath ELSE ArtifactName(b),
             total_requests |-> s[b] + f[b], successful_requests |-> s[b],
             failed_requests |-> f[b], errors |-> <<>>]]
  /\ FileOff
  /\ RunOff
  /\ ShareOff
  /\ faults = 0

NextSummary == JsonlFinish

SpecSummary == InitSummary /\ [][NextSummary]_vars

\* -------------------------------------------------------------- SpecFile
\* One enrichment file run over a TSV file of 0..NFileRows rows, which the
\* process may not survive.
InitFile ==
  /\ pipeline = "file"
  /\ FetchInit(1, DefaultMaxRetries, {}, "idle")
  /\ ItemInit({})
  /\ BatchOff
  /\ JsonlOff
  /\ \E n \in 0..NFileRows, bs \in 1..MaxFileBatchSize : FileInit(n, bs)
  /\ RunOff
  /\ ShareOff
  /\ faults = 0

fileFrame == <<pipeline, fetchVars, itemVars, batchVars, jsonlVars, runVars, shareVars, faults>>

NextFile ==
  \/ \E outcome \in {"ok", "no_url_column", "unreadable"} :
       FileRead(outcome) /\ UNCHANGED fileFrame
  \/ \E ok \in BOOLEAN : FileCreateStaging(ok) /\ UNCHANGED fileFrame
  \/ FileBeginBatch /\ UNCHANGED fileFrame
  \/ \E ok \in BOOLEAN, remove_ok \in BOOLEAN :
       FileEndBatch(ok, remove_ok) /\ UNCHANGED fileFrame
  \/ FileAppendRow /\ UNCHANGED fileFrame
  \/ \E remove_ok \in BOOLEAN : FileAppendFails(remove_ok) /\ UNCHANGED fileFrame
  \/ FileAppendDone /\ UNCHANGED fileFrame
  \/ \E outcome \in {"moved", "makedirs_fails", "move_fails", "move_fails_after_copy"},
        remove_ok \in BOOLEAN :
       FileFinalize(outcome, remove_ok) /\ UNCHANGED fileFrame
  \/ FileCrash /\ UNCHANGED fileFrame

SpecFile == InitFile /\ [][NextFile]_vars

\* --------------------------------------------------------------- SpecRun
\* One enrichment run over a directory of 0..NFiles TSV files of 0..NFileRows
\* rows each.
InitRun ==
  /\ pipeline = "run"
  /\ FetchInit(1, DefaultMaxRetries, {}, "idle")
  /\ ItemInit({})
  /\ BatchOff
  /\ JsonlOff
  /\ \E N \in 0..NFiles, bs \in 1..MaxFileBatchSize : RunInit(N, bs)
  /\ ShareOff
  /\ faults = 0

runFrame == <<pipeline, fetchVars, itemVars, batchVars, jsonlVars, shareVars, faults>>

NextRun ==
  \/ \E listed \in BOOLEAN, n \in 0..NFileRows : RunStart(listed, n) /\ UNCHANGED runFrame
  \/ \E n \in 0..NFileRows : RunFileDone(n) /\ UNCHANGED runFrame
  \/ rstate = "loop" /\ NextFile

SpecRun == InitRun /\ [][NextRun]_vars

\* -------------------------------------------------------- SpecConcurrent
\* NRuns enrichment file runs in progress together, on files named a.tsv or
\* b.tsv (of different directories when the names are the same).
InitConcurrent ==
  /\ pipeline = "concurrent"
  /\ FetchInit(1, DefaultMaxRetries, {}, "idle")
  /\ ItemInit({})
  /\ BatchOff
  /\ JsonlOff
  /\ FileOff
  /\ rstate = "off"
  /\ tsv_files = 0
  /\ file_index = 0
  /\ results = NoResults
  /\ ConcInit
  /\ faults = 0

concFrame == <<pipeline, fetchVars, itemVars, batchVars, jsonlVars, fileVars, runVars, faults>>

NextConcurrent ==
  \/ ClockTick /\ UNCHANGED concFrame
  \/ \E r \in Runs :
       \/ ConcCreate(r) /\ UNCHANGED concFrame
       \/ ConcAppend(r) /\ UNCHANGED concFrame
       \/ ConcBatchFails(r) /\ UNCHANGED concFrame
       \/ ConcMove(r) /\ UNCHANGED concFrame

SpecConcurrent == InitConcurrent /\ [][NextConcurrent]_vars

\* ----------------------------------------------------------- SpecReturns
\* One invocation of either execute, of the enrichment run or of the
\* request-building run, that is scheduled as long as it has a step to take:
\* every awaited fetch, transform and file operation comes back.
InitReturns == InitRun \/ InitJsonl

NextReturns ==
  \/ pipeline = "run" /\ NextRun
  \/ pipeline = "jsonl" /\ NextJsonl

SpecReturns == InitReturns /\ [][NextReturns]_vars /\ WF_vars(NextReturns)

\* --------------------------------------------------------- SpecPipelines
\* A run of either pipeline: one batch of the enrichment sub-batch executor, one
\* request-building run, or one enrichment file run.
InitPipelines == InitBatch \/ InitJsonl \/ InitFile

NextPipelines ==
  \/ pipeline = "enrich" /\ NextBatch
  \/ pipeline = "jsonl" /\ NextJsonl
  \/ pipeline = "file" /\ NextFile

SpecPipelines == InitPipelines /\ [][NextPipelines]_vars

\* ======================================================== claims: SpecFetch

\* A fetch that has returned the image bytes after max_retries + 1 client.get
\* calls: the first max_retries attempts failed transiently, the last succeeded.
SucceededOnLastAttempt(t) ==
  /\ pc[t] = "fetched"
  /\ fret[t].kind = "bytes"
  /\ gets[t] = max_retries + 1

\* C5: a fetch that fails transiently exactly max_retries times and then
\* succeeds returns the bytes with no error, after exactly max_retries backoff
\* waits, the wait after failed attempt a being 0.5 * 2^a seconds; with the
\* default max_retries = 2 the waits are 0.5 s then 1.0 s.
Thm_C5_BackoffThenSuccess ==
  \A t \in Tasks :
    SucceededOnLastAttempt(t) =>
      /\ fret[t] = Bytes
      /\ reports[t] = 0
      /\ Len(waits[t]) = max_retries
      /\ \A a \in 0..(max_retries - 1) : waits[t][a + 1] = BackoffBaseMs * Pow2(a)
      /\ (max_retries = DefaultMaxRetries => waits[t] = <<500, 1000>>)

Wit_C5_BackoffThenSuccess ==
  \E t \in Tasks :
    /\ SucceededOnLastAttempt(t)
    /\ max_retries = DefaultMaxRetries
    /\ last_exception[t] \in Transient
    /\ Len(waits[t]) = 2

\* C6: a fetch whose attempt fails with a non-transient failure is not retried:
\* no further client.get and no backoff wait follow that failure, at whichever
\* attempt it occurs, and the fetch returns a typed failure (None, message).
Cex_C6_NonTransientReturnsTypedFailure ==
  \A t \in Tasks :
    last_exception[t] \in NonTransient =>
      /\ pc[t] \in {"report", "fetched"}
      /\ gets[t] = attempt[t] + 1
      /\ Len(waits[t]) = attempt[t]
      /\ (pc[t] = "fetched" =>
            fret[t] = TypedFailure(ErrorMsg(last_exception[t])))

\* The part of C6 that the code does keep: no retry and no wait after a
\* non-transient failure.
Aux_C6_NoRetryAfterNonTransient ==
  \A t \in Tasks :
    last_exception[t] \in NonTransient =>
      /\ pc[t] \in {"report", "fetched"}
      /\ gets[t] = attempt[t] + 1
      /\ Len(waits[t]) = attempt[t]

\* A fetch all of whose max_retries + 1 attempts failed transiently.
ExhaustedRetries(t) ==
  /\ pc[t] = "fetched"
  /\ gets[t] = max_retries + 1
  /\ last_exception[t] \in Transient
  /\ fret[t].kind # "bytes"

\* C7: a fetch makes at most max_retries + 1 attempts; when all of them fail
\* transiently it returns the last failure as (None, message), with no backoff
\* wait after the final attempt.
Cex_C7_ExhaustedReturnsLastFailure ==
  \A t \in Tasks :
    /\ gets[t] <= max_retries + 1
    /\ ExhaustedRetries(t) =>
          /\ fret[t] = TypedFailure("pool_timeout")
          /\ Len(waits[t]) = max_retries

\* The part of C7 that the code does keep: the attempt bound and no wait after
\* the final attempt.
Aux_C7_AttemptBound ==
  \A t \in Tasks :
    /\ gets[t] <= max_retries + 1
    /\ ExhaustedRetries(t) => Len(waits[t]) = max_retries

\* C8: get_image_bytes_with_client never raises to its caller: whatever the
\* fetch outcome, and also when log_error fails while a terminal failure is
\* reported, it returns (bytes, None) or (None, message).
Cex_C8_FetchNeverRaises ==
  \A t \in Tasks :
    pc[t] = "fetched" => fret[t].kind \in {"bytes", "error"}

\* C31: every terminal fetch failure of get_image_bytes_with_client is
\* reported exactly once to the error-logging collaborator (one log_error
\* call, made when the fetch gives up); a fetch that succeeds, and a transient
\* failure that is followed by a retry, cause no report.
Thm_C31_TerminalFailureReportedOnce ==
  \A t \in Tasks :
    /\ reports[t] <= 1
    /\ pc[t] \in {"acquire", "get", "backoff", "report"} => reports[t] = 0
    /\ pc[t] = "fetched" =>
         /\ fret[t].kind = "bytes" => reports[t] = 0
         /\ fret[t].kind \in {"error", "raised"} => reports[t] = 1

\* a fetch that was retried twice after transient failures and then gave up:
\* three gets, two waits, one report
Wit_C31_TerminalFailureReportedOnce ==
  \E t \in Tasks :
    /\ pc[t] = "fetched"
    /\ fret[t] = TypedFailure("pool_timeout")
    /\ gets[t] = 3
    /\ Len(waits[t]) = 2
    /\ reports[t] = 1

\* ======================================================== claims: SpecBatch

\* C2: the list returned by the enrichment process_batch_parallel has the length
\* of the batch and its i-th element is the outcome of row i, whatever the
\* order in which the concurrent fetches and transforms completed.
Thm_C2_ResultsInRowOrder ==
  bstate = "returned" =>
    /\ Len(all_results) = Len(urls)
    /\ \A j \in 1..Len(urls) :
         /\ all_results[j] = result[urls[j]]
         /\ all_results[j].row = urls[j]
         /\ all_results[j].status \in {"success", "error"}

\* a returned batch whose two concurrent rows completed in reverse order, one
\* failing and one succeeding
Wit_C2_ResultsInRowOrder ==
  /\ bstate = "returned"
  /\ completed = <<2, 1>>
  /\ result[1].status = "success"
  /\ result[2].status = "error"

\* Entries of the ledger led that name row t.
EntriesFor(led, t) == Cardinality({j \in 1..Len(led) : led[j].url = t})

NonTransientTypes == {"http_status", "network", "unexpected"}

\* The step in which the item processor returns for row t, whose fetch failed
\* with a non-transient reason.
CompletesAfterNonTransient(t) ==
  /\ pc[t] # "done"
  /\ pc'[t] = "done"
  /\ fret[t].kind \in {"error", "raised"}
  /\ fret[t].cause \in NonTransientTypes

TransformFails(t) ==
  /\ pc'[t] = "done"
  /\ \/ pc[t] = "llm"
     \/ pc[t] = "usage" /\ parsed_text'[t] \in {"partial", "none", "raise"}

TransformFailureReasons ==
  {"Generation failed", "Failed to parse response JSON", "JSON parsing failed"}

\* C11: when the fetch of a row succeeds and the transform fails (the model
\* call raises, or the model's output cannot be parsed), the item processor
\* returns a failure result whose reason is not the fetch-failure reason,
\* appends exactly one entry for the row to the Failure Ledger, and does not
\* raise.
Cex_C11_TransformFailureRecorded ==
  [][\A t \in Tasks :
       TransformFails(t) =>
         /\ result'[t].status = "error"
         /\ result'[t].error # "Failed to load image"
         /\ ledger_calls'[t] = 1
         /\ EntriesFor(ledger', t) = 1]_vars

\* What the code does keep of C11: the item processor always returns a result
\* for the row; and when the model call raised, or the text parsed to null or
\* to a JSON value that is no object, and the ledger file was written without
\* a failure, the result is a failure with a transform reason and the row has
\* its one entry.
Aux_C11_TransformFailureOutcome ==
  [][\A t \in Tasks :
       TransformFails(t) =>
         /\ result'[t].row = t
         /\ result'[t].status \in {"success", "error"}
         /\ (parsed_text'[t] # "partial" /\ faults' = faults + 1) =>
               /\ result'[t].status = "error"
               /\ result'[t].error \in TransformFailureReasons
               /\ ledger_calls'[t] = 1
               /\ EntriesFor(ledger', t) = 1
         /\ parsed_text'[t] = "partial" =>
               /\ result'[t] = Success(t)
               /\ ledger_calls'[t] = 0]_vars

\* The step in which the item processor returns for row t after its fetch and
\* its model call succeeded, the model's text being a JSON object: parsed as
\* such ("dict"), or never parsed because add_llm_usage raised ("unset").
CompletesAfterGoodText(t) ==
  /\ pc[t] = "usage"
  /\ pc'[t] = "done"
  /\ parsed_text'[t] \in {"dict", "unset"}

\* C30, as stated: usage recording is best-effort; a row whose fetch, model
\* call and parsing succeed yields a success result and no Failure Ledger
\* entry even when recording its usage fails.
Cex_C30_UsageRecordingBestEffort ==
  [][\A t \in Tasks :
       CompletesAfterGoodText(t) =>
         /\ result'[t] = Success(t)
         /\ ledger_calls'[t] = 0
         /\ ledger' = ledger]_vars

\* What does hold: when the usage was recorded the row is a success without a
\* ledger call; when add_llm_usage raised, the text is never parsed and the
\* row is a failure of the kind a failed model call gives, with a ledger call.
Aux_C30_UsageFailureFailsRow ==
  [][\A t \in Tasks :
       CompletesAfterGoodText(t) =>
         IF parsed_text'[t] = "dict"
           THEN result'[t] = Success(t) /\ ledger_calls'[t] = 0 /\ ledger' = ledger
           ELSE /\ result'[t].status = "error"
                /\ result'[t].error \in {"Generation failed", "exception"}
                /\ ledger_calls'[t] >= 1]_vars

\* ======================================================= claims: SpecLedger

\* C26, as stated: for every interleaving of the item processors of a run,
\* once they have all completed the ledger holds exactly one entry for each
\* log_failed_url call that was made.
Cex_C26_LedgerHoldsEveryCall ==
  (\A t \in Tasks : pc[t] = "done") =>
     \A t \in Tasks : EntriesFor(ledger, t) = ledger_calls[t]

\* What does hold in every interleaving: log_failed_url runs without a
\* suspension point, so a call that the file system answers normally appends
\* its entry to whatever the other rows have recorded so far, and the ledger
\* never holds more entries for a row than calls were made for it.
Aux_C26_NoLostUpdateWithoutIOFailure ==
  /\ [](\A t \in Tasks : EntriesFor(ledger, t) <= ledger_calls[t])
  /\ [][\A t \in Tasks :
          (ledger_calls'[t] # ledger_calls[t] /\ faults' = faults) =>
             /\ ledger_calls'[t] = ledger_calls[t] + 1
             /\ Len(ledger') = Len(ledger) + 1
             /\ SubSeq(ledger', 1, Len(ledger)) = ledger
             /\ ledger'[Len(ledger')].url = t]_vars

\* C27, as stated: the ledger is append-only; every entry in the ledger file
\* before a log_failed_url call is still in it, unchanged and in the same
\* order, after the call, also when the existing file cannot be read.
Cex_C27_LedgerAppendOnly ==
  [][/\ Len(ledger') >= Len(ledger)
     /\ SubSeq(ledger', 1, Len(ledger)) = ledger]_vars

\* What does hold: a step changes the ledger only by log_failed_url calls, and
\* when every access of those calls to the file succeeds the old entries are
\* kept as a prefix.
Aux_C27_AppendOnlyWithoutIOFailure ==
  [][(ledger' # ledger /\ faults' = faults) =>
        /\ Len(ledger') > Len(ledger)
        /\ SubSeq(ledger', 1, Len(ledger)) = ledger
        /\ \E t \in Tasks : ledger_calls'[t] > ledger_calls[t]]_vars

\* ==================================================== claims: SpecLongBatch

\* ceil(n / sub_batch_size)
NumSubBatches(n) == (n + sub_batch_size - 1) \div sub_batch_size

\* C14: the enrichment sub-batch executor splits a batch of n rows into
\* ceil(n / sub_batch_size) sub-batches that are contiguous, in row order and
\* run one after another; every sub-batch but the last has sub_batch_size rows
\* and the last has n - sub_batch_size * (ceil(n / sub_batch_size) - 1) rows.
Thm_C14_SubBatchSplit ==
  LET n == Len(urls)
      last == sub_batch_size * (NumSubBatches(n) - 1)
  IN  bstate # "off" =>
        /\ sub_i % sub_batch_size = 0
        /\ sub_i <= last
        /\ SubBatch = [j \in 1..Len(SubBatch) |-> urls[sub_i + j]]
        /\ Len(SubBatch) = IF sub_i < last THEN sub_batch_size ELSE n - last
        /\ \A t \in Tasks :
             /\ t <= sub_i => pc[t] = "done"
             /\ t > sub_i + sub_batch_size => pc[t] = "idle"
             /\ (bstate = "launch" /\ t > sub_i) => pc[t] = "idle"
        /\ bstate \in {"closing", "returned", "raised"} => sub_i = last

\* the third sub-batch of a batch of five rows is being gathered: the one row
\* left after two sub-batches of two
Wit_C14_SubBatchSplit ==
  /\ Len(urls) = 5
  /\ bstate = "gather"
  /\ sub_i = 2 * sub_batch_size
  /\ SubBatch = <<5>>
  /\ pc[5] = "get"

\* The cooldowns that have elapsed: the loop index advances by one sub-batch
\* after each, and only then.
CooldownsElapsed == sub_i \div sub_batch_size

\* One step of the sub-batch executor respects the order of C35.
SubBatchOrderStep ==
  /\ sub_i' # sub_i =>
       /\ bstate = "cooldown" /\ bstate' = "launch"
       /\ sub_i' = sub_i + sub_batch_size
       /\ \A t \in Tasks : t <= sub_i' => pc[t] = "done"
  /\ (bstate = "launch" /\ bstate' = "gather") =>
       \A t \in Tasks :
         /\ pc'[t] # pc[t] => (sub_i < t /\ t <= sub_i + sub_batch_size /\ pc'[t] = "acquire")
         /\ t <= sub_i => pc[t] = "done"
  /\ (bstate # "cooldown" /\ bstate' = "cooldown") =>
       /\ bstate = "gather"
       /\ \A j \in 1..Len(SubBatch) : pc[SubBatch[j]] = "done"
       /\ CooldownsElapsed < NumSubBatches(Len(urls)) - 1
  /\ (bstate # "closing" /\ bstate' = "closing") =>
       /\ bstate = "gather"
       /\ CooldownsElapsed = NumSubBatches(Len(urls)) - 1

\* C35: the sub-batch executor starts sub-batch j + 1 only after every task of
\* sub-batch j has completed and one cooldown has elapsed; a batch of s >= 1
\* sub-batches has exactly s - 1 cooldowns, none after the final sub-batch.
Thm_C35_CooldownBetweenSubBatches ==
  /\ [][SubBatchOrderStep]_vars
  /\ [](bstate \in {"launch", "gather"} =>
          \A t \in Tasks : pc[t] # "idle" => t <= (CooldownsElapsed + 1) * sub_batch_size)
  /\ [](bstate \in {"closing", "returned", "raised"} =>
          CooldownsElapsed = NumSubBatches(Len(urls)) - 1)

\* a batch of five rows has returned after three sub-batches and two cooldowns
Wit_C35_CooldownBetweenSubBatches ==
  /\ Len(urls) = 5
  /\ bstate = "returned"
  /\ NumSubBatches(Len(urls)) = 3
  /\ CooldownsElapsed = 2
  /\ Len(all_results) = 5

\* ======================================================== claims: SpecJsonl

\* C1: at most MAX_CONCURRENT_REQUESTS fetches are inside the permit-guarded
\* client.get at any time, whatever the batch size and however many batches run
\* concurrently: every fetch of the run draws from the one semaphore.
Thm_C1_InFlightBounded ==
  /\ InFlight <= MAX_CONCURRENT_REQUESTS
  /\ concurrency_limit = MAX_CONCURRENT_REQUESTS - InFlight

\* the cap is reached by fetches of two different batches while a third row
\* waits for a permit
Wit_C1_InFlightBounded ==
  /\ pipeline = "jsonl"
  /\ InFlight = MAX_CONCURRENT_REQUESTS
  /\ \E t1 \in Tasks, t2 \in Tasks, t3 \in Tasks :
       /\ pc[t1] = "get"
       /\ pc[t2] = "get"
       /\ BatchOf(t1) # BatchOf(t2)
       /\ pc[t3] = "acquire"

\* C10: in the request-building pipeline every row whose fetch fails produces
\* a failure outcome for the row and has its locator and reason recorded in
\* the Failure Ledger.
Cex_C10_JsonlFailureInLedger ==
  \A t \in Tasks :
    (pipeline = "jsonl" /\ pc[t] = "done" /\ fret[t].kind \in {"error", "raised"}) =>
      /\ result[t].status = "error"
      /\ \E j \in 1..Len(ledger) : ledger[j].url = t

\* The part of C10 that the code does keep: a failure outcome for the row.
Aux_C10_JsonlFailureOutcome ==
  \A t \in Tasks :
    (pipeline = "jsonl" /\ pc[t] = "done" /\ fret[t].kind \in {"error", "raised"}) =>
      result[t].status = "error"

\* Rows of T whose item processor has been started and has not returned.
Pending(T) == {t \in T : pc[t] \notin {"idle", "done"}}

\* C15: in both pipelines the number of item processor invocations that are
\* pending at the same time for one batch never exceeds the sub-batch size,
\* whatever the permit count: a batch larger than one sub-batch never has all
\* its rows launched at once.
Cex_C15_PendingBoundedBySubBatch ==
  /\ pipeline = "enrich" => Cardinality(Pending(Tasks)) <= sub_batch_size
  /\ pipeline = "jsonl" =>
       \A b \in Batches : Cardinality(Pending(BatchRows(b))) <= sub_batch_size

\* The part of C15 that the code does keep: the bound in the enrichment
\* pipeline.
Aux_C15_EnrichPendingBounded ==
  pipeline = "enrich" => Cardinality(Pending(Tasks)) <= sub_batch_size

\* The report process_single_batch makes for batch b when saving its file raised.
BatchFailureReport(b) ==
  [status |-> "made", batch_index |-> b, file_path |-> NoPath,
   total_requests |-> Cardinality(BatchRows(b)), successful_requests |-> 0,
   failed_requests |-> Cardinality(BatchRows(b)),
   errors |-> << <<"Error processing batch", b>> >>]

\* The report of batch b is the one its own rows call for: their own successes
\* and failures counted, their keys in its own artifact.
OwnBatchReport(b) ==
  LET rows == SeqOfSet(BatchRows(b))
  IN  /\ batch_results[b].batch_index = b
      /\ batch_results[b].total_requests = Len(rows)
      /\ batch_results[b].successful_requests = Len(SuccessfulKeys(rows))
      /\ batch_results[b].failed_requests = Len(rows) - Len(SuccessfulKeys(rows))
      /\ artifacts[ArtifactName(b)] = SuccessfulKeys(rows)
      /\ batch_results[b].file_path = IF SuccessfulKeys(rows) = <<>> THEN NoPath ELSE ArtifactName(b)

\* C21: in request-building mode a batch-level failure is isolated to its
\* batch. A batch has a report only once its own rows are done; the report is
\* either the failure report (zero successful requests, no artifact) or the
\* one its own rows call for, whatever happened to the other batches; and the
\* run ends with a report for every batch.
Thm_C21_BatchFailureIsolated ==
  /\ \A b \in Batches :
       batch_results[b] # NoReport =>
         /\ \A t \in BatchRows(b) : pc[t] = "done"
         /\ \/ batch_results[b] = BatchFailureReport(b) /\ artifacts[ArtifactName(b)] = <<>>
            \/ OwnBatchReport(b)
  /\ (jstate = "done" /\ run_report.status = "success") =>
       \A b \in Batches : batch_results[b] # NoReport

\* batch 0 could not save its file although its rows were fetched; batch 1 of
\* the same run has its own report and artifact
Wit_C21_BatchFailureIsolated ==
  /\ jstate = "done"
  /\ Cardinality(Batches) = 2
  /\ batch_results[0] = BatchFailureReport(0)
  /\ \E t \in BatchRows(0) : result[t].status = "success"
  /\ OwnBatchReport(1)
  /\ artifacts[ArtifactName(1)] # <<>>

\* A batch has completed: process_single_batch made its result from its rows
\* (the failure report of the except branch is not a completion).
Completed(b) ==
  /\ batch_results[b] # NoReport
  /\ batch_results[b] # BatchFailureReport(b)

\* C22, as stated: every batch that completes writes exactly one output
\* artifact of its own.
Cex_C22_EveryBatchWritesArtifact ==
  \A b \in Batches :
    Completed(b) =>
      /\ batch_results[b].file_path = ArtifactName(b)
      /\ artifacts[ArtifactName(b)] # <<>>

\* C22, amended: every batch that completes with at least one successful
\* request has written exactly one artifact of its own, named from the source
\* file name and its batch index and holding its own records; a batch that
\* completes with no successful request writes none and reports an empty path;
\* no two batches of a run have the same artifact.
Thm_C22_OneArtifactPerBatchWithSuccess ==
  /\ \A b \in Batches :
       Completed(b) =>
         LET ok == SuccessfulKeys(SeqOfSet(BatchRows(b)))
         IN  /\ batch_results[b].file_path = (IF ok = <<>> THEN NoPath ELSE ArtifactName(b))
             /\ artifacts[ArtifactName(b)] = ok
  /\ \A b, c \in Batches :
       (b # c /\ Completed(b) /\ Completed(c) /\ batch_results[b].file_path # NoPath) =>
          batch_results[b].file_path # batch_results[c].file_path
  /\ \A name \in DOMAIN artifacts :
       Cardinality({b \in Batches : ArtifactName(b) = name}) = 1

\* two batches of a run each wrote their own artifact and a third, whose only
\* row failed, wrote none
Wit_C22_OneArtifactPerBatchWithSuccess ==
  /\ jstate = "done"
  /\ Cardinality(Batches) = 3
  /\ Completed(0) /\ Completed(1) /\ Completed(2)
  /\ artifacts[ArtifactName(0)] = <<1>>
  /\ artifacts[ArtifactName(1)] = <<2>>
  /\ artifacts[ArtifactName(2)] = <<>>
  /\ batch_results[2].file_path = NoPath

\* The file of batch b failed validation: the last of the batch's errors says so.
ValidationFailed(b) ==
  /\ batch_results[b] # NoReport
  /\ batch_results[b].errors # <<>>
  /\ batch_results[b].errors[Len(batch_results[b].errors)] =
        <<"JSONL file validation failed", b>>

\* C23: in request-building mode a validation failure of a written artifact
\* adds exactly one batch-level error message to the batch's report, after the
\* messages of its failed rows, and leaves successful_requests,
\* failed_requests and the file path of the artifact as they are without it.
Thm_C23_ValidationFailureOnlyAddsError ==
  \A b \in Batches :
    ValidationFailed(b) =>
      LET rows == SeqOfSet(BatchRows(b))
          ok == SuccessfulKeys(rows)
      IN  /\ ok # <<>>
          /\ batch_results[b].errors =
                Append(ErrorMessages(rows), <<"JSONL file validation failed", b>>)
          /\ batch_results[b].successful_requests = Len(ok)
          /\ batch_results[b].failed_requests = Len(rows) - Len(ok)
          /\ batch_results[b].total_requests = Len(rows)
          /\ batch_results[b].file_path = ArtifactName(b)
          /\ artifacts[ArtifactName(b)] = ok

\* a batch of three rows, one of them failed, whose file failed validation
Wit_C23_ValidationFailureOnlyAddsError ==
  \E b \in Batches :
    /\ ValidationFailed(b)
    /\ Len(batch_results[b].errors) = 2
    /\ batch_results[b].successful_requests = 2
    /\ batch_results[b].failed_requests = 1

\* ======================================================= claims: SpecVertex

\* C32, as stated: every record written to a request-building output artifact
\* is keyed by the identifier (photo_id) of the row it was built from, in the
\* VertexAI record format as in the Gemini one.
Cex_C32_RecordsKeyedByRow ==
  \A b \in Batches :
    LET records == artifacts[VertexArtifactName(b)]
        rows == SeqOfSet(BatchRows(b))
    IN  \A j \in 1..Len(records) :
          /\ "key" \in DOMAIN records[j]
          /\ records[j].key = rows[j]

\* What does hold in the VertexAI format: the records of an artifact are those
\* of the first rows of its batch, in row order, each carrying the locator of
\* its row and no key.
Aux_C32_VertexRecordsInRowOrder ==
  \A b \in Batches :
    LET records == artifacts[VertexArtifactName(b)]
        rows == SeqOfSet(BatchRows(b))
    IN  /\ Len(records) <= Len(rows)
        /\ \A j \in 1..Len(records) : records[j] = VertexRecord(rows[j])
        /\ batch_results[b] # NoReport =>
             (batch_results[b].file_path # NoPath => batch_results[b].successful_requests = Len(records))

\* ==================================================== claims: SpecBatchSize

\* C33, as stated: the request-building batch size is bounded to 200..800;
\* execute never partitions an input with a batch size below 200 or above 800,
\* whether the size comes from the request or from the configured default.
Cex_C33_BatchSizeWithinRange ==
  jstate = "batches" =>
    /\ MinBatchSize <= effective_batch_size
    /\ effective_batch_size <= MaxBatchSize

\* What does hold: a size outside 200..800 is never one a request carried, it
\* is the configured default; and the partition made is the one of that size.
Aux_C33_OnlyRequestSizeIsBounded ==
  jstate = "batches" =>
    /\ \/ effective_batch_size \in MinBatchSize..MaxBatchSize
       \/ effective_batch_size \in ConfiguredSizes
    /\ DOMAIN batch_results = Batches
    /\ Cardinality(Batches) * effective_batch_size >= Cardinality(Tasks)
    /\ (Cardinality(Batches) - 1) * effective_batch_size < Cardinality(Tasks)

\* C39: every request-building batch report satisfies successful + failed =
\* total_requests = the number of rows of its batch, and the report at
\* position i has batch_index = i, in whatever order the batches complete and
\* also when the batch failed (then successful = 0 and failed = its rows).
Thm_C39_BatchReportCounts ==
  \A i \in DOMAIN batch_results :
    batch_results[i] # NoReport =>
      /\ i \in Batches
      /\ batch_results[i].batch_index = i
      /\ batch_results[i].total_requests = Cardinality(BatchRows(i))
      /\ batch_results[i].successful_requests + batch_results[i].failed_requests
           = batch_results[i].total_requests
      /\ batch_results[i].successful_requests \in 0..batch_results[i].total_requests
      /\ batch_results[i].errors = << <<"Error processing batch", i>> >> =>
           /\ batch_results[i].successful_requests = 0
           /\ batch_results[i].failed_requests = Cardinality(BatchRows(i))

\* batch 1 completed before batch 0 and failed on saving its file: its report
\* counts its one row as failed and sits at position 1
Wit_C39_BatchReportCounts ==
  /\ pipeline = "jsonl"
  /\ Cardinality(Batches) = 2
  /\ batch_results[0] = NoReport
  /\ batch_results[1] # NoReport
  /\ batch_results[1].errors = << <<"Error processing batch", 1>> >>
  /\ batch_results[1].failed_requests = 1
  /\ \E t \in BatchRows(1) : result[t].status = "success"

\* ==================================================== claims: SpecJsonlRows

\* Number of rows of the input file that have both a photo_id and a
\* photo_image_url.
CompleteRows == Cardinality({j \in 1..Len(file_rows) : file_rows[j] = "full"})

\* C25: in a request-building run that reaches its summary, the summary counts
\* are the aggregation of all batch reports: successful_requests and
\* failed_requests are the sums over the batches, and total_requests =
\* successful_requests + failed_requests = the number of input rows that have
\* both a photo_id and a photo_image_url.
Thm_C25_SummaryAggregatesBatches ==
  (jstate = "done" /\ run_report.status = "success") =>
    /\ run_report.successful_requests =
          SumOver([b \in Batches |-> batch_results[b].successful_requests], Batches)
    /\ run_report.failed_requests =
          SumOver([b \in Batches |-> batch_results[b].failed_requests], Batches)
    /\ run_report.total_requests =
          run_report.successful_requests + run_report.failed_requests
    /\ run_report.total_requests = CompleteRows
    /\ run_report.total_batches = Cardinality(Batches)
    /\ \A b \in Batches :
         batch_results[b].successful_requests + batch_results[b].failed_requests
            = Cardinality(BatchRows(b))

\* a file of three rows, one without a photo_id: two batches of one request,
\* one fetched and one failed
Wit_C25_SummaryAggregatesBatches ==
  /\ jstate = "done"
  /\ Len(file_rows) = 3
  /\ file_rows[1] = "no_id"
  /\ Cardinality(Batches) = 2
  /\ run_report.status = "success"
  /\ run_report.total_requests = 2
  /\ run_report.successful_requests = 1
  /\ run_report.failed_requests = 1

\* =================================================== claims: SpecConcurrent

\* The temp file of run r is as r itself left it: it exists and holds the
\* header and the batches r has appended, and nothing else.
OwnStaging(r) ==
  LET path == enrich_runs[r].temp_file_path
  IN  /\ Exists(path)
      /\ intermediate_outputs[path] =
            <<Line(r, "header")>> \o [j \in 1..enrich_runs[r].batch_index |-> Line(r, j - 1)]

\* C29, as stated: the staging artifact of a file is exclusively owned by the
\* run that created it until it is moved or deleted, also when two enrichment
\* runs over a file of the same name are in progress at the same time.
Cex_C29_StagingExclusivelyOwned ==
  \A r \in Runs : enrich_runs[r].pos = "batching" => OwnStaging(r)

\* What does hold: the staging artifact of a run is its own as long as no
\* other run in progress has a file of the same name, or the other run made
\* its temp file in another minute.
Aux_C29_OwnedUnlessSameNameAndMinute ==
  \A r \in Runs :
    (/\ enrich_runs[r].pos = "batching"
     /\ \A q \in Runs \ {r} :
          \/ enrich_runs[q].stem # enrich_runs[r].stem
          \/ /\ enrich_runs[q].temp_file_path # NoPath
             /\ enrich_runs[q].temp_file_path # enrich_runs[r].temp_file_path)
      => OwnStaging(r)

\* C37, as stated: when an enrichment file succeeds, the final output holds
\* exactly one row per input row, in input order: the header and then the rows
\* of the run's own batches, each once, and nothing else.
Cex_C37_FinalOutputOneRowPerInputRow ==
  \A r \in Runs :
    enrich_runs[r].status = "success" =>
      enrich_runs[r].output =
        <<Line(r, "header")>> \o [j \in 1..RunBatches |-> Line(r, j - 1)]

\* What does hold: the output of a successful run is complete and in order
\* when no other run had a file of the same name.
Aux_C37_CompleteUnlessSameName ==
  \A r \in Runs :
    (/\ enrich_runs[r].status = "success"
     /\ \A q \in Runs \ {r} : enrich_runs[q].stem # enrich_runs[r].stem)
      => enrich_runs[r].output =
           <<Line(r, "header")>> \o [j \in 1..RunBatches |-> Line(r, j - 1)]

\* ====================================================== claims: SpecReturns

\* execute has returned its report to the caller
ExecuteReturned ==
  \/ pipeline = "run" /\ rstate = "returned"
  \/ pipeline = "jsonl" /\ jstate = "done"

\* C28: every invocation of GenerateBatchDescriptionUsecase.execute and of
\* PrepareJsonalUsecase.execute terminates by returning a report, if it is not
\* killed: batch-level and run-level failures end in a report with a success
\* or error status and in the errors of the enrichment report; nothing is
\* raised to the caller.
Thm_C28_ExecuteReturnsReport ==
  /\ <>(ExecuteReturned \/ fstate = "crashed")
  /\ [](ExecuteReturned =>
          /\ pipeline = "run" =>
               /\ results.status \in {"success", "error"}
               /\ \A j \in 1..Len(results.processed_files) :
                    results.processed_files[j].status \in {"success", "error"}
          /\ pipeline = "jsonl" => run_report.status \in {"success", "error"})

\* an enrichment run returned although the batch of its only file failed
Wit_C28_ExecuteReturnsReport ==
  /\ pipeline = "run"
  /\ rstate = "returned"
  /\ tsv_files = 1
  /\ results.status = "success"
  /\ results.files_processed = 0
  /\ results.errors = <<[file |-> 0, error |-> "batch"]>>

\* a request-building run returned although none of its batches could save
\* its file
Wit_C28_RequestBuildingReturns ==
  /\ pipeline = "jsonl"
  /\ jstate = "done"
  /\ run_report.status = "success"
  /\ run_report.successful_requests = 0
  /\ \E b \in Batches : batch_results[b] = BatchFailureReport(b)

\* ====================================================== claims: SpecSummary

\* C24: a request-building run in which successful = 0 and failed = 0 reports
\* a success rate of 0, and computing the success rate never faults on a
\* division by zero: whatever the batch results, execute returns the success
\* response with a rate between 0 and 100.
Thm_C24_SuccessRateOfEmptyRun ==
  jstate = "done" =>
    /\ run_report.status = "success"
    /\ run_report.success_rate \in 0..100
    /\ run_report.total_requests = 0 => run_report.success_rate = 0

\* two batch results without any request: successful = 0 and failed = 0
Wit_C24_SuccessRateOfEmptyRun ==
  /\ pipeline = "summary"
  /\ jstate = "done"
  /\ DOMAIN batch_results = {0, 1}
  /\ run_report.successful_requests = 0
  /\ run_report.failed_requests = 0
  /\ run_report.success_rate = 0

\* What does hold in the Gemini format: the records of an artifact are keyed
\* by the rows of its batch whose image was fetched, and appear in row order.
Aux_C32_GeminiKeysInRowOrder ==
  \A b \in Batches :
    LET keys == artifacts[ArtifactName(b)]
    IN  /\ \A j \in 1..Len(keys) :
             /\ GeminiRecord(keys[j]).key \in BatchRows(b)
             /\ result[keys[j]].status = "success"
        /\ \A i, j \in 1..Len(keys) : i < j => keys[i] < keys[j]

\* ========================================================= claims: SpecFile

\* The header followed by the rows of the first b batches, in row order.
StagedBatches(b) == <<Header>> \o SubSeq(df, 1, Min(b * BATCH_SIZE, Len(df)))

\* The process was interrupted after the append of batch batch_index - 1 and
\* before the append of batch batch_index was complete.
InterruptedAfterBatch ==
  /\ fstate = "crashed"
  /\ batch_index >= 1
  /\ batch_index < NumFileBatches

\* C3: interrupted at any point after batch i has been appended and before
\* batch i+1 has been appended, the staging artifact holds the header followed
\* by exactly the rows of batches 0..i, in row order, none twice and none of
\* batch i+1.
Cex_C3_StagingHoldsWholeBatches ==
  InterruptedAfterBatch => staging = StagedBatches(batch_index)

\* What the code does keep of C3: the rows of batches 0..i are all there, in
\* order and once each, followed by nothing but leading rows of batch i+1.
Aux_C3_StagingPrefix ==
  InterruptedAfterBatch =>
    /\ Len(staging) >= Len(StagedBatches(batch_index))
    /\ Len(staging) <= Len(StagedBatches(batch_index + 1))
    /\ staging = SubSeq(StagedBatches(batch_index + 1), 1, Len(staging))

\* C4: the staging artifact is moved to the final path only after every batch
\* of the file has been processed and appended; after a failure that occurs
\* before the move (read, missing column, staging creation, batch processing,
\* append, output directory) the run has created nothing at the final path.
Thm_C4_MoveOnlyAfterAllBatches ==
  /\ final # <<>> =>
       /\ batch_index = NumFileBatches
       /\ processed_rows = Len(df)
       /\ final = <<Header>> \o df
       /\ fstate \in {"success", "error"}
  /\ (fstate = "error" /\ file_report.message # "move") => final = <<>>
  /\ fstate = "crashed" => final = <<>>

\* a file run that failed in its second batch, after the first was appended
Wit_C4_MoveOnlyAfterAllBatches ==
  /\ fstate = "error"
  /\ file_report.message \in {"batch", "append"}
  /\ batch_index = 1
  /\ final = <<>>

\* C16: enrichment mode processes the batches of a file strictly in index
\* order with one batch in flight: while batch i is with the sub-batch
\* executor the staging artifact holds the header and exactly the rows of
\* batches 0..i-1, and while batch i is being appended it holds those and the
\* rows of batch i written so far; the header is there before any row.
Thm_C16_BatchesInOrder ==
  /\ fstate \in {"batching", "processing"} => staging = StagedBatches(batch_index)
  /\ fstate = "appending" =>
       /\ updated_batch_df = FileBatch(batch_index)
       /\ staging = StagedBatches(batch_index) \o SubSeq(updated_batch_df, 1, written)
  /\ fstate \in {"batching", "processing", "appending"} =>
       /\ batch_index <= NumFileBatches
       /\ processed_rows = Len(StagedBatches(batch_index)) - 1
  /\ fstate \in {"processing", "appending"} => batch_index < NumFileBatches
  /\ staging # <<>> => staging[1] = Header

\* the second batch of a file is with the sub-batch executor, the first one
\* appended
Wit_C16_BatchesInOrder ==
  /\ fstate = "processing"
  /\ batch_index = 1
  /\ BATCH_SIZE = 2
  /\ staging = <<Header, 1, 2>>

\* C17: in enrichment mode a batch-level failure (the sub-batch executor
\* raises, or appending the batch to the staging artifact fails) is fatal to the
\* file: the file's report has status error, the staging artifact is not moved
\* to the final location, and nothing more is done for the file: no later
\* batch is fetched or appended.
Thm_C17_BatchFailureFatal ==
  /\ [](file_report.message \in {"batch", "append"} =>
          /\ fstate = "error"
          /\ file_report.status = "error"
          /\ final = <<>>
          /\ batch_index < NumFileBatches)
  /\ [][fstate = "error" => UNCHANGED fileVars]_vars

\* a file whose second batch failed in the sub-batch executor
Wit_C17_BatchFailureFatal ==
  /\ fstate = "error"
  /\ file_report = ErrorReport("batch")
  /\ batch_index = 1
  /\ NumFileBatches = 3
  /\ processed_rows = 1

\* C18 as stated: whenever process_single_tsv_file ends with a failed status
\* after the staging artifact was created, no staging artifact of the file
\* remains.
Cex_C18_StagingDeletedOnFailure ==
  fstate = "error" => staging = <<>>

\* C18 as amended: whenever process_single_tsv_file ends with a failed status
\* after the staging artifact was created, the handler has tried to remove it;
\* it is gone unless os.remove itself failed, which is only logged.
Thm_C18_StagingRemovalAttempted ==
  fstate = "error" =>
    /\ file_report.message \in {"batch", "append", "makedirs", "move"} =>
          cleanup \in {"removed", "remove_failed"}
    /\ cleanup # "remove_failed" => staging = <<>>
    /\ cleanup = "remove_failed" => staging # <<>>

\* a file that failed while its second batch was being appended, and whose
\* staging artifact with the first batch was removed
Wit_C18_StagingRemovalAttempted ==
  /\ fstate = "error"
  /\ file_report = ErrorReport("append")
  /\ batch_index = 1
  /\ processed_rows = 2
  /\ cleanup = "removed"
  /\ staging = <<>>

\* What holds of C37 for a file that a single run processes: on success the
\* final output is the header followed by every input row, once and in input
\* order, and processed_rows is the number of input rows.
Aux_C37_SingleRunKeepsEveryRow ==
  fstate = "success" =>
    /\ final = <<Header>> \o df
    /\ processed_rows = Len(df)
    /\ staging = <<>>

\* =========================================================== claims: SpecRun

\* Number of reports of the sequence r with the status st.
RECURSIVE CountStatus(_, _)
CountStatus(r, st) ==
  IF r = <<>> THEN 0
  ELSE (IF Head(r).status = st THEN 1 ELSE 0) + CountStatus(Tail(r), st)

\* C19: an enrichment run never aborts because one file failed. Every
\* discovered TSV file is processed exactly once and one at a time: while the
\* loop is at file i the reports of files 0..i-1, and no others, are recorded,
\* and the run returns with one report per file; a file that failed is recorded
\* as failed and followed by the next file.
Thm_C19_RunSurvivesFileFailure ==
  /\ rstate = "loop" =>
       /\ file_index < tsv_files
       /\ Len(results.processed_files) = file_index
  /\ (rstate = "returned" /\ results.status = "success") =>
       /\ file_index = tsv_files - 1
       /\ Len(results.processed_files) = tsv_files
  /\ rstate \in {"loop", "returned"} =>
       /\ results.files_processed = CountStatus(results.processed_files, "success")
       /\ Len(results.errors) = CountStatus(results.processed_files, "error")
       /\ results.files_processed + Len(results.errors) = Len(results.processed_files)
       /\ \A j \in 1..Len(results.errors) : results.errors[j].file < tsv_files

\* a run of two files whose first file failed in a batch and whose second
\* file was then processed to its end
Wit_C19_RunSurvivesFileFailure ==
  /\ rstate = "returned"
  /\ tsv_files = 2
  /\ Len(results.processed_files) = 2
  /\ results.processed_files[1] = ErrorReport("batch")
  /\ results.processed_files[2].status = "success"
  /\ results.errors = <<[file |-> 0, error |-> "batch"]>>
  /\ final = <<Header, 1, 2, 3>>

\* C38: throughout an enrichment run that found at least one TSV file,
\* files_processed + len(errors) = len(processed_files) after each file; at
\* the end processed_files has total_files entries and the status of the run
\* is "success" whatever the number of failed files, even when all failed.
Thm_C38_RunCountsAndStatus ==
  /\ rstate = "loop" =>
       /\ results.status = "success"
       /\ results.files_processed + Len(results.errors) = Len(results.processed_files)
       /\ Len(results.processed_files) = file_index
  /\ (rstate = "returned" /\ results.processed_files # <<>>) =>
       /\ results.status = "success"
       /\ results.files_processed + Len(results.errors) = Len(results.processed_files)
       /\ Len(results.processed_files) = tsv_files
  /\ (rstate = "returned" /\ results.processed_files = <<>>) =>
       /\ results.status = "error"
       /\ results.files_processed = 0
       /\ results.errors = <<>>

\* a run of two files which both failed has returned with the status "success"
Wit_C38_RunCountsAndStatus ==
  /\ rstate = "returned"
  /\ tsv_files = 2
  /\ results.status = "success"
  /\ results.files_processed = 0
  /\ Len(results.errors) = 2
  /\ Len(results.processed_files) = 2
  /\ \A j \in 1..2 : results.processed_files[j].status = "error"

\* ==================================================== claims: SpecPipelines

\* C40: a file with the required columns and zero data rows succeeds in
\* enrichment mode, with zero batches, no batch processed and a final output
\* that holds the header only (it can fail only on its temp file or on the
\* move); in request-building mode it yields an error report with
\* total_batches = 0, no batch result and no artifact.
Thm_C40_EmptyInput ==
  /\ (pipeline = "file" /\ df = <<>>) =>
       /\ NumFileBatches = 0
       /\ batch_index = 0
       /\ processed_rows = 0
       /\ fstate \notin {"processing", "appending"}
       /\ staging \in {<<>>, <<Header>>}
       /\ fstate = "success" => final = <<Header>>
       /\ fstate = "error" =>
            file_report.message \notin {"batch", "append"}
  /\ (pipeline = "jsonl" /\ Tasks = {}) =>
       /\ jstate \in {"start", "done"}
       /\ batch_results = <<>>
       /\ artifacts = <<>>
       /\ jstate = "done" =>
            /\ run_report.status = "error"
            /\ run_report.total_batches = 0

\* an enrichment file of zero rows has succeeded: its final output is the header
Wit_C40_EmptyInput ==
  /\ pipeline = "file"
  /\ df = <<>>
  /\ fstate = "success"
  /\ file_report.status = "success"
  /\ final = <<Header>>
  /\ staging = <<>>

\* a request-building run over a readable file of zero rows has returned its
\* error report
Wit_C40_RequestBuildingEmptyInput ==
  /\ pipeline = "jsonl"
  /\ Tasks = {}
  /\ jstate = "done"
  /\ run_report = [status |-> "error", total_batches |-> 0, message |-> "empty"]


\* The batches 0 .. k - 1 of the enrichment pipeline, one after the other.
RECURSIVE ConcatFileBatches(_)
ConcatFileBatches(k) ==
  IF k = 0 THEN <<>> ELSE ConcatFileBatches(k - 1) \o FileBatch(k - 1)

\* The batches 0 .. k - 1 of the request-building pipeline, one after the other.
RECURSIVE ConcatBatchRows(_)
ConcatBatchRows(k) ==
  IF k = 0 THEN <<>> ELSE ConcatBatchRows(k - 1) \o SeqOfSet(BatchRows(k - 1))

\* C36: create_batches, in both pipelines, partitions the n rows of its input
\* with a batch size b >= 1 into ceil(n / b) contiguous batches in input order:
\* their concatenation is the input, every batch but the last has exactly b
\* rows, the last has between 1 and b, and zero rows give zero batches.
Thm_C36_CreateBatchesPartitions ==
  /\ pipeline = "file" =>
       LET n == Len(df)
           k == NumFileBatches
       IN  /\ BATCH_SIZE >= 1
           /\ k * BATCH_SIZE >= n
           /\ (k - 1) * BATCH_SIZE < n \/ (n = 0 /\ k = 0)
           /\ ConcatFileBatches(k) = df
           /\ \A b \in 0..(k - 1) :
                /\ b < k - 1 => Len(FileBatch(b)) = BATCH_SIZE
                /\ Len(FileBatch(b)) \in 1..BATCH_SIZE
  /\ pipeline = "jsonl" =>
       LET n == Cardinality(Tasks)
           k == Cardinality(Batches)
       IN  /\ effective_batch_size >= 1
           /\ k * effective_batch_size >= n
           /\ (k - 1) * effective_batch_size < n \/ (n = 0 /\ k = 0)
           /\ ConcatBatchRows(k) = [j \in 1..n |-> j]
           /\ \A b \in Batches :
                /\ b < k - 1 => Cardinality(BatchRows(b)) = effective_batch_size
                /\ Cardinality(BatchRows(b)) \in 1..effective_batch_size

\* the enrichment file run processes the second and last batch of a file of
\* three rows cut by two: the one row left
Wit_C36_CreateBatchesPartitions ==
  /\ pipeline = "file"
  /\ Len(df) = 3
  /\ BATCH_SIZE = 2
  /\ fstate = "appending"
  /\ batch_index = 1
  /\ updated_batch_df = <<df[3]>>

\* a request-building run of three rows cut by two has written the artifact of
\* its second and last batch
Wit_C36_RequestBuildingLastBatch ==
  /\ pipeline = "jsonl"
  /\ Cardinality(Tasks) = 3
  /\ effective_batch_size = 2
  /\ Cardinality(Batches) = 2
  /\ BatchRows(1) = {3}
  /\ batch_results[1] # NoReport


\* The fetches inside client.get, the only place where the code holds a permit
\* (the body of "async with self.concurrency_limit").
InClientGet == {t \in Tasks : pc[t] = "get"}

\* C34: a fetch holds a permit only while its client.get is in progress: the
\* permits taken from the semaphore are exactly those of the fetches inside
\* client.get, so none is held during a backoff wait, error reporting, the
\* transform or after any exit of an attempt; and once every row of a run is
\* done all MAX_CONCURRENT_REQUESTS permits are available again.
Thm_C34_PermitHeldOnlyDuringGet ==
  /\ concurrency_limit >= 0
  /\ concurrency_limit + Cardinality(InClientGet) = MAX_CONCURRENT_REQUESTS
  /\ (\A t \in Tasks : pc[t] = "done") => concurrency_limit = MAX_CONCURRENT_REQUESTS

\* a fetch waits in a backoff, after a transient failure, while every permit
\* is available and another row is already past its own fetch
Wit_C34_PermitHeldOnlyDuringGet ==
  \E t, u \in Tasks :
    /\ pc[t] = "backoff"
    /\ last_exception[t] \in Transient
    /\ pc[u] \in {"llm", "usage", "done"}
    /\ concurrency_limit = MAX_CONCURRENT_REQUESTS


OwnSuccess(t) ==
  /\ fret[t].kind = "bytes"
  /\ pipeline = "enrich" => (llm_calls[t] = 1 /\ ParsedAsDict(parsed_text[t]))

\* C13: within a sub-batch there is no cross-item cancellation. Whatever one
\* row suffers, every sibling runs to completion and the outcome reported at
\* its position is its own: once the sub-batch executor has gathered a
\* sub-batch (enrichment) or a batch has its report (request-building), every
\* row of it is done, with a success exactly when its own fetch and transform
\* succeeded, and reported at its own position.
Thm_C13_NoCrossItemCancellation ==
  /\ \A t \in Tasks :
       pc[t] = "done" => (result[t].status = "success" <=> OwnSuccess(t))
  /\ (pipeline = "enrich" /\ bstate \in {"cooldown", "closing", "returned", "raised"}) =>
       /\ Len(all_results) = Min(sub_i + sub_batch_size, Len(urls))
       /\ \A j \in 1..Len(all_results) :
            /\ pc[urls[j]] = "done"
            /\ all_results[j] = result[urls[j]]
  /\ pipeline = "jsonl" =>
       \A b \in DOMAIN batch_results :
         batch_results[b] # NoReport =>
           /\ \A t \in BatchRows(b) : pc[t] = "done"
           /\ batch_results[b].total_requests = Cardinality(BatchRows(b))
           /\ artifacts[ArtifactName(b)] # <<>> =>
                 artifacts[ArtifactName(b)] = SeqOfSet({t \in BatchRows(b) : OwnSuccess(t)})

\* a gathered sub-batch whose first row failed in its fetch, before its
\* sibling succeeded
Wit_C13_NoCrossItemCancellation ==
  /\ pipeline = "enrich"
  /\ bstate \in {"closing", "returned"}
  /\ Len(urls) = 2
  /\ completed = <<1, 2>>
  /\ fret[1].kind = "error"
  /\ all_results = <<Failure(1, "Failed to load image"), Success(2)>>

\* what process_single_tsv_file reports for a file without the locator column
MissingUrlColumn == ErrorReport("Required column 'photo_image_url' not found")

\* the request-building run rejected its file for a missing column
MissingColumnsReport ==
  /\ run_report.status = "error"
  /\ run_report.message = "missing_columns"

\* C20: an input file without the required locator column is rejected before
\* any fetch. Enrichment mode: the error report is made straight from the
\* read, before the temp file exists and before any batch (the only place
\* where rows are fetched and transformed) is begun, and the file then has no
\* staging or output artifact and no batch. Request-building mode: the run
\* reports an error with no row's fetch started, no get, no transform call and
\* no JSONL artifact or batch result.
Thm_C20_MissingColumnRejectedBeforeFetch ==
  /\ [](/\ (pipeline = "file" /\ file_report = MissingUrlColumn) =>
             /\ fstate = "error"
             /\ staging = <<>> /\ final = <<>> /\ cleanup = "none"
             /\ batch_index = 0 /\ processed_rows = 0
             /\ updated_batch_df = <<>> /\ written = 0
        /\ (pipeline = "jsonl" /\ MissingColumnsReport) =>
             /\ jstate = "done"
             /\ run_report.total_batches = 0
             /\ \A t \in Tasks :
                   /\ pc[t] = "idle" /\ gets[t] = 0 /\ llm_calls[t] = 0
                   /\ fret[t].kind = "none" /\ result[t].status = "none"
             /\ \A name \in DOMAIN artifacts : artifacts[name] = <<>>
             /\ \A b \in DOMAIN batch_results : batch_results[b] = NoReport)
  /\ [][(pipeline = "file" /\ file_report' = MissingUrlColumn /\ file_report # MissingUrlColumn)
          => (fstate = "start" /\ fstate' = "error")]_vars
  /\ [][(pipeline = "jsonl" /\ run_report' # run_report /\ run_report'.status = "error"
          /\ run_report'.message = "missing_columns")
          => (jstate = "start" /\ pc' = pc /\ UNCHANGED <<gets, llm_calls, artifacts>>)]_vars

\* a request-building file of three rows rejected for a missing column
Wit_C20_MissingColumnRejectedBeforeFetch ==
  /\ pipeline = "jsonl"
  /\ MissingColumnsReport
  /\ Cardinality(Tasks) = 3
  /\ jstate = "done"

\* an enrichment file of three rows rejected for the missing locator column
Wit_C20_EnrichmentFileRejected ==
  /\ pipeline = "file"
  /\ file_report = MissingUrlColumn
  /\ Len(df) = 3
====
